---------------------------- MODULE Spec2Model ----------------------------
(***************************************************************************)
(* A model of the extraction-validation pipeline of excel-agent-fintech:   *)
(*   - src/src/models.py     FinancialPeriod / CompanyReport construction  *)
(*   - src/src/extractor.py  extract_data under its tenacity retry         *)
(*                           decorator, and _clean_json_text               *)
(*   - src/src/filter.py     filter_financial_pages                        *)
(*   - src/main.py, src/src/app.py  the two callers of the filter          *)
(*   - src/src/analyzer.py   FinancialAnalyzer: _convert_currency,         *)
(*                           aggregate_data, calculate_metrics and         *)
(*                           enrich_with_forecast                          *)
(*   - src/src/ml/forecaster.py  RevenueForecaster and                     *)
(*                           predict_future_revenue                        *)
(*   - src/src/ingest/factory.py  get_ingestion_strategy                   *)
(*                                                                         *)
(* Amounts are Python floats in the source; here they are integers and     *)
(* every comparison against 0.01 * x is made after multiplying both sides  *)
(* by 100, so the comparison is exact.  An Optional value is a sequence of *)
(* length at most one: None is << >>, a present value v is << v >>.        *)
(*                                                                         *)
(* Each component has its own specification; the variables of the other    *)
(* components stay at their idle values under it.                          *)
(***************************************************************************)
EXTENDS Integers, Sequences, FiniteSets, TLC

VARIABLES
    \* ---- FinancialPeriod(**kwargs), src/src/models.py
    fp_kwargs,      \* the keyword arguments of the constructor call
    fp_pc,          \* "idle" | "fields" | "validator" | "done"
    fp_result,      \* "none" | "ok" | "ValidationError"
    fp_obj,         \* << >> when no object exists, << self >> otherwise
    \* ---- one model response through lines 136-147 of extract_data
    cl_parts,       \* the pieces the response text was assembled from
    cl_content,     \* response.choices[0].message.content, a token sequence
    cl_pc,          \* "idle" | "received" | "parsed"
    cl_cleaned,     \* cleaned_content
    cl_loads_arg,   \* the text handed to json.loads
    \* ---- one call of the retry-decorated extract_data
    ex_model,       \* model_name: which family substrings it contains
    ex_env,         \* the environment variables holding credentials
    ex_pc,          \* "idle" | "call" | "backoff" | "returned" | "raised"
    ex_attempt,     \* retry_state.attempt_number
    ex_llm_calls,   \* requests sent to client.chat.completions.create
    ex_waits,       \* the sleeps made between attempts, in order
    ex_llm,         \* what the language model answered in the running attempt
    ex_outcome,     \* retry_state.outcome: the result of the last attempt
    ex_returned,    \* << report >> once the call has returned
    ex_raised,      \* the exception the caller sees, "" when none
    \* ---- one call of filter_financial_pages
    fl_pages,       \* reader.pages
    fl_threshold,   \* threshold
    fl_exists,      \* os.path.exists(input_path)
    fl_pc,          \* "idle" | "start" | "scan" | "done"
    fl_i,           \* the 1-based number of the page the loop is at
    fl_writer,      \* the page numbers added to the PdfWriter, in order
    fl_pages_kept,  \* pages_kept
    fl_output,      \* the file at output_path: whether written, and its pages
    fl_return,      \* "none" | "True" | "False" | "FileNotFoundError"
    \* ---- one document through a caller of the filter: main() of src/main.py
    \* ---- or one iteration of the analysis loop of src/src/app.py
    ca_caller,      \* "main" | "app"
    ca_use_filter,  \* not args.no_filter (main), use_filter (app)
    ca_is_pdf,      \* input_path.lower().endswith('.pdf')
    ca_filter,      \* what filter_financial_pages does when it is called
    ca_parse_ok,    \* whether the document-to-text step succeeds
    ca_pc,          \* "idle" | "start" | "parse" | "extract" | "exit" | "error"
    ca_returned,    \* what the filter call returned: "not_called" | "True" |
                    \* "False" | "raised"
    ca_path,        \* parsing_path / file_to_parse: "original" | "filtered"
    ca_parsed,      \* << >>, or << the path handed to the document-to-text step >>
    \* ---- FinancialAnalyzer._convert_currency(row) called on one row, and
    \* ---- then again on the row it returned
    cv_input,       \* the row as it was before the first call
    cv_row,         \* the row: the dict the calls mutate and return
    cv_first,       \* << >>, or << the row as the first call returned it >>
    cv_pc,          \* "idle" | "call" | "once" | "twice"
    \* ---- reports built as the tests build them, then FinancialAnalyzer's
    \* ---- aggregate_data() and calculate_metrics()
    an_inputs,      \* per report: company, currency and its periods' kwargs
    an_reports,     \* self.reports: the CompanyReport objects
    an_pc,          \* "idle" | "construct" | "aggregate" | "metrics" | "done" |
                    \* "raised"
    an_df,          \* self.df: a sequence of rows, << >> when empty
    an_agg,         \* the table aggregate_data returned
    an_out,         \* the table calculate_metrics returned
    \* ---- one FinancialAnalyzer and the calls made on it, in any order
    se_built,       \* the reports as they were constructed
    se_reports,     \* self.reports: the CompanyReport objects as they are now
    se_df,          \* self.df
    se_pc,          \* "idle" | "ready"
    se_calls,       \* how many calls have been made
    se_prev,        \* the call before the last one, << >> when there was none
    se_last,        \* the last call and its result, << >> when there was none
    se_first_agg,   \* << >>, or << the table the first aggregate_data returned >>
    \* ---- one RevenueForecaster and the calls made on it, or one call of
    \* ---- the legacy wrapper predict_future_revenue
    fc_years_ahead, \* self.years_ahead
    fc_model,       \* self.model: << >>, or << the fitted regression >>
    fc_last_year,   \* self.last_year
    fc_last_revenue, \* self.last_revenue
    fc_cagr,        \* self.cagr
    fc_pc,          \* "idle" | "ready" | "done"
    fc_fits,        \* how many times fit has been called
    fc_last_fit,    \* << >>, or << the last call of fit: its argument, what it
                    \* raised, and the sorted rows it worked on >>
    fc_out,         \* << >>, or << the table predict returned since the last fit >>
    fc_reported,    \* << >>, or << what get_cagr returned since the last fit >>
    fc_legacy,      \* << >>, or << the call of predict_future_revenue >>
    \* ---- one call of get_ingestion_strategy and the parse that follows it
    ig_path,        \* file_path, a token sequence
    ig_pc,          \* "idle" | "call" | "returned" | "raised" | "parsed"
    ig_strategy,    \* << >>, or << the class of the strategy returned >>
    ig_raised,      \* the exception raised, "" when none
    ig_parse_calls, \* how many times a strategy's parse has been called
    \* ---- one period built from keyword arguments, put in a report of one
    \* ---- currency and aggregated
    id_kwargs,      \* the keyword arguments of the FinancialPeriod
    id_currency,    \* reporting_currency of the report
    id_pc,          \* "idle" | "construct" | "aggregate" | "done" | "raised"
    id_reports,     \* self.reports of the analyzer
    id_df           \* the table aggregate_data returned

fpVars == <<fp_kwargs, fp_pc, fp_result, fp_obj>>

clVars == <<cl_parts, cl_content, cl_pc, cl_cleaned, cl_loads_arg>>

exVars == <<ex_model, ex_env, ex_pc, ex_attempt, ex_llm_calls, ex_waits, ex_llm,
            ex_outcome, ex_returned, ex_raised>>

flVars == <<fl_pages, fl_threshold, fl_exists, fl_pc, fl_i, fl_writer,
            fl_pages_kept, fl_output, fl_return>>

caVars == <<ca_caller, ca_use_filter, ca_is_pdf, ca_filter, ca_parse_ok, ca_pc,
            ca_returned, ca_path, ca_parsed>>

cvVars == <<cv_input, cv_row, cv_first, cv_pc>>

anVars == <<an_inputs, an_reports, an_pc, an_df, an_agg, an_out>>

seVars == <<se_built, se_reports, se_df, se_pc, se_calls, se_prev, se_last,
            se_first_agg>>

fcVars == <<fc_years_ahead, fc_model, fc_last_year, fc_last_revenue, fc_cagr,
            fc_pc, fc_fits, fc_last_fit, fc_out, fc_reported, fc_legacy>>

igVars == <<ig_path, ig_pc, ig_strategy, ig_raised, ig_parse_calls>>

idVars == <<id_kwargs, id_currency, id_pc, id_reports, id_df>>

vars == <<fpVars, clVars, exVars, flVars, caVars, cvVars, anVars, seVars,
          fcVars, igVars, idVars>>

otherThanFp == <<clVars, exVars, flVars, caVars, cvVars, anVars, seVars,
                 fcVars, igVars, idVars>>

otherThanCl == <<fpVars, exVars, flVars, caVars, cvVars, anVars, seVars,
                 fcVars, igVars, idVars>>

otherThanEx == <<fpVars, clVars, flVars, caVars, cvVars, anVars, seVars,
                 fcVars, igVars, idVars>>

otherThanFl == <<fpVars, clVars, exVars, caVars, cvVars, anVars, seVars,
                 fcVars, igVars, idVars>>

otherThanCa == <<fpVars, clVars, exVars, flVars, cvVars, anVars, seVars,
                 fcVars, igVars, idVars>>

otherThanCv == <<fpVars, clVars, exVars, flVars, caVars, anVars, seVars,
                 fcVars, igVars, idVars>>

otherThanAn == <<fpVars, clVars, exVars, flVars, caVars, cvVars, seVars,
                 fcVars, igVars, idVars>>

otherThanSe == <<fpVars, clVars, exVars, flVars, caVars, cvVars, anVars,
                 fcVars, igVars, idVars>>

otherThanFc == <<fpVars, clVars, exVars, flVars, caVars, cvVars, anVars,
                 seVars, igVars, idVars>>

otherThanIg == <<fpVars, clVars, exVars, flVars, caVars, cvVars, anVars,
                 seVars, fcVars, idVars>>

otherThanId == <<fpVars, clVars, exVars, flVars, caVars, cvVars, anVars,
                 seVars, fcVars, igVars>>

---------------------------------------------------------------------------
(* Generic helpers                                                         *)

None == << >>

Some(v) == << v >>

Val(o) == o[1]

Max(a, b) == IF a >= b THEN a ELSE b

Min(a, b) == IF a <= b THEN a ELSE b

Abs(x) == IF x >= 0 THEN x ELSE -x

\* dict.get(key): the value, or None when the key is absent
Get(d, k) == IF k \in DOMAIN d THEN d[k] ELSE None

---------------------------------------------------------------------------
(* The idle values of each component's variables: what they hold under the *)
(* specifications of the other components                                  *)

FpIdle ==
    /\ fp_kwargs = << >>
    /\ fp_pc = "idle"
    /\ fp_result = "none"
    /\ fp_obj = None

ClIdle ==
    /\ cl_parts = [R |-> << >>, P1 |-> << >>, fence |-> "fence", body |-> << >>,
                   P2 |-> << >>]
    /\ cl_content = << >>
    /\ cl_pc = "idle"
    /\ cl_cleaned = << >>
    /\ cl_loads_arg = << >>

NoPayload == [kind |-> "none", shapes |-> << >>]

\* no request was sent to the language model
NoCall == [kind |-> "not_called", content |-> << >>]

\* no attempt has finished yet
NoOutcome == [status |-> "none", error |-> "", report |-> << >>, called |-> FALSE]

ExIdle ==
    /\ ex_model = [deepseek |-> FALSE, gemini |-> FALSE]
    /\ ex_env = [OPENAI_API_KEY |-> None, DEEPSEEK_API_KEY |-> None,
                 GEMINI_API_KEY |-> None]
    /\ ex_pc = "idle"
    /\ ex_attempt = 0
    /\ ex_llm_calls = 0
    /\ ex_waits = << >>
    /\ ex_llm = NoCall
    /\ ex_outcome = NoOutcome
    /\ ex_returned = << >>
    /\ ex_raised = ""

FlIdle ==
    /\ fl_pages = << >>
    /\ fl_threshold = 50
    /\ fl_exists = FALSE
    /\ fl_pc = "idle"
    /\ fl_i = 0
    /\ fl_writer = << >>
    /\ fl_pages_kept = 0
    /\ fl_output = [written |-> FALSE, pages |-> << >>]
    /\ fl_return = "none"

CaIdle ==
    /\ ca_caller = "main"
    /\ ca_use_filter = FALSE
    /\ ca_is_pdf = FALSE
    /\ ca_filter = "False"
    /\ ca_parse_ok = FALSE
    /\ ca_pc = "idle"
    /\ ca_returned = "not_called"
    /\ ca_path = "original"
    /\ ca_parsed = << >>

CvIdle ==
    /\ cv_input = << >>
    /\ cv_row = << >>
    /\ cv_first = << >>
    /\ cv_pc = "idle"

AnIdle ==
    /\ an_inputs = << >>
    /\ an_reports = << >>
    /\ an_pc = "idle"
    /\ an_df = << >>
    /\ an_agg = << >>
    /\ an_out = << >>

SeIdle ==
    /\ se_built = << >>
    /\ se_reports = << >>
    /\ se_df = << >>
    /\ se_pc = "idle"
    /\ se_calls = 0
    /\ se_prev = << >>
    /\ se_last = << >>
    /\ se_first_agg = << >>

FcIdle ==
    /\ fc_years_ahead = 0
    /\ fc_model = << >>
    /\ fc_last_year = << >>
    /\ fc_last_revenue = << >>
    /\ fc_cagr = << >>
    /\ fc_pc = "idle"
    /\ fc_fits = 0
    /\ fc_last_fit = << >>
    /\ fc_out = << >>
    /\ fc_reported = << >>
    /\ fc_legacy = << >>

IgIdle ==
    /\ ig_path = << >>
    /\ ig_pc = "idle"
    /\ ig_strategy = << >>
    /\ ig_raised = ""
    /\ ig_parse_calls = 0

IdIdle ==
    /\ id_kwargs = << >>
    /\ id_currency = ""
    /\ id_pc = "idle"
    /\ id_reports = << >>
    /\ id_df = << >>

---------------------------------------------------------------------------
(* src/src/models.py : FinancialPeriod                                     *)

\* the fields declared with Field(...): no default, so each is required
RequiredModelFields ==
    {"period_end_date", "revenue", "cogs", "ebit", "net_income",
     "assets", "liabilities", "equity", "ocf"}

\* all declared fields; depreciation_amortization has the default 0.0
ModelFields == RequiredModelFields \cup {"depreciation_amortization"}

\* the fields declared with ge=0
NonNegativeFields == {"revenue", "assets", "liabilities"}

\* pydantic's field validation, which runs before the mode='after' validator:
\* required fields are present, no declared field is None (every one is a
\* plain float or date, not Optional), and the ge=0 constraints hold
FieldsValid(kw) ==
    /\ \A f \in RequiredModelFields : f \in DOMAIN kw
    /\ \A f \in ModelFields : f \in DOMAIN kw => kw[f] # None
    /\ \A f \in NonNegativeFields : Val(kw[f]) >= 0

\* the validated field values: declared fields only (extra keys are ignored),
\* depreciation_amortization defaulting to 0
FieldValues(kw) ==
    [f \in ModelFields |->
        IF f \in DOMAIN kw THEN Val(kw[f]) ELSE 0]

\* check_accounting_equation with the comparison written >= : a difference
\* equal to the tolerance is rejected
check_accounting_equation_ge(self) ==
    LET lhs == self["assets"]
        rhs == self["liabilities"] + self["equity"]
        diff == Abs(lhs - rhs)
        tolerance100 == Max(100, lhs)
    IN  ~ (100 * diff >= tolerance100)

\* check_accounting_equation: TRUE when it returns self, FALSE when it raises.
\* diff > max(1.0, 0.01 * lhs), both sides multiplied by 100
check_accounting_equation(self) ==
    LET lhs == self["assets"]
        rhs == self["liabilities"] + self["equity"]
        diff == Abs(lhs - rhs)
        tolerance100 == Max(100, lhs)
    IN  ~ (100 * diff > tolerance100)

\* FinancialPeriod(**kw): << self >> on success, << >> when a ValidationError
\* is raised
FinancialPeriod(kw) ==
    IF ~ FieldsValid(kw) THEN None
    ELSE IF ~ check_accounting_equation(FieldValues(kw)) THEN None
    ELSE Some(FieldValues(kw))

---------------------------------------------------------------------------
(* src/src/extractor.py : _clean_json_text                                 *)
(*                                                                         *)
(* A text is a sequence of tokens.  The markers the regular expressions    *)
(* look for are single tokens: "<think>", "</think>", "fence_json" (three  *)
(* backticks followed by json), "fence" (three backticks), "{", "}", a     *)
(* whitespace character "ws" and any other character "x".  A               *)
(* token also carries a payload d, which is NoPayload except for the       *)
(* token that stands for the members of a JSON object (see ParseJson).     *)

Tok(s) == [t |-> s, d |-> NoPayload]

LBrace == Tok("{")

RBrace == Tok("}")

\* str.find(tok): the first position of tok, 0 when there is none (Python's -1)
Find(text, tok) ==
    IF \E i \in 1 .. Len(text) : text[i].t = tok
    THEN CHOOSE i \in 1 .. Len(text) :
            /\ text[i].t = tok
            /\ \A j \in 1 .. (i - 1) : text[j].t # tok
    ELSE 0

\* str.rfind(tok): the last position of tok, 0 when there is none
RFind(text, tok) ==
    IF \E i \in 1 .. Len(text) : text[i].t = tok
    THEN CHOOSE i \in 1 .. Len(text) :
            /\ text[i].t = tok
            /\ \A j \in (i + 1) .. Len(text) : text[j].t # tok
    ELSE 0

\* text[i:] for a 1-based position i
From(text, i) == SubSeq(text, i, Len(text))

\* re.sub(r'<think>.*?</think>', '', text, flags=re.DOTALL): leftmost matches,
\* each ending at the first "</think>" after its "<think>"
RECURSIVE RemoveThink(_)
RemoveThink(text) ==
    IF text = << >> THEN << >>
    ELSE IF Head(text).t = "<think>" /\ Find(Tail(text), "</think>") # 0
         THEN RemoveThink(From(Tail(text), Find(Tail(text), "</think>") + 1))
         ELSE << Head(text) >> \o RemoveThink(Tail(text))

\* the \s* of a fence pattern: the text without its leading whitespace
RECURSIVE SkipWs(_)
SkipWs(text) ==
    IF text # << >> /\ Head(text).t = "ws" THEN SkipWs(Tail(text)) ELSE text

\* re.sub(marker + r'\s*', '', text)
RECURSIVE RemoveFence(_, _)
RemoveFence(text, marker) ==
    IF text = << >> THEN << >>
    ELSE IF Head(text).t = marker
         THEN RemoveFence(SkipWs(Tail(text)), marker)
         ELSE << Head(text) >> \o RemoveFence(Tail(text), marker)

\* the text without its trailing whitespace
RECURSIVE RStrip(_)
RStrip(text) ==
    IF text # << >> /\ text[Len(text)].t = "ws"
    THEN RStrip(SubSeq(text, 1, Len(text) - 1))
    ELSE text

\* str.strip()
Strip(text) == RStrip(SkipWs(text))

\* text[start:end+1] for 1-based positions; empty when end < start
Slice(text, start, end) == SubSeq(text, start, end)

\* _clean_json_text with text.find('}') in place of text.rfind('}')
clean_json_text_first_close(text) ==
    LET t1 == RemoveThink(text)
        t2 == RemoveFence(t1, "fence_json")
        t3 == RemoveFence(t2, "fence")
        start == Find(t3, "{")
        end == Find(t3, "}")
    IN  IF start # 0 /\ end # 0 THEN Slice(t3, start, end) ELSE Strip(t3)

\* _clean_json_text
clean_json_text(text) ==
    LET t1 == RemoveThink(text)
        t2 == RemoveFence(t1, "fence_json")
        t3 == RemoveFence(t2, "fence")
        start == Find(t3, "{")
        end == RFind(t3, "}")
    IN  IF start # 0 /\ end # 0 THEN Slice(t3, start, end) ELSE Strip(t3)

---------------------------------------------------------------------------
(* The JSON objects a model response may hold.  The members of an object   *)
(* are carried by one token, whose payload names the shape of each period  *)
(* of its "periods" list; DataOfPayload is the object json.loads builds    *)
(* from it.                                                                *)

\* the periods a response may hold, by shape
PeriodShapes ==
    {"full", "core", "null_cogs", "full_unbalanced", "full_null_debt",
     "core_unbalanced"}

Merge(f, g) ==
    [k \in (DOMAIN f) \cup (DOMAIN g) |-> IF k \in DOMAIN g THEN g[k] ELSE f[k]]

\* the eight statement fields and the date, balanced: 2000 = 1000 + 1000
CorePeriod(year) ==
    [period_end_date |-> Some(year), revenue |-> Some(1000), cogs |-> Some(500),
     ebit |-> Some(200), net_income |-> Some(150), assets |-> Some(2000),
     liabilities |-> Some(1000), equity |-> Some(1000), ocf |-> Some(250)]

ExtendedFields ==
    [depreciation_amortization |-> Some(50), shares_outstanding |-> Some(100),
     total_debt |-> Some(300), cash_and_equivalents |-> Some(40)]

JsonPeriod(shape, year) ==
    CASE shape = "full" -> Merge(CorePeriod(year), ExtendedFields)
      [] shape = "core" -> CorePeriod(year)
      [] shape = "null_cogs" -> Merge(CorePeriod(year), [cogs |-> None])
      [] shape = "full_unbalanced" ->
            Merge(Merge(CorePeriod(year), ExtendedFields), [equity |-> Some(500)])
      [] shape = "full_null_debt" ->
            Merge(Merge(CorePeriod(year), ExtendedFields), [total_debt |-> None])
      [] shape = "core_unbalanced" ->
            Merge(CorePeriod(year), [equity |-> Some(500)])

\* the object json.loads returns for a payload; the i-th period is dated
\* 2025 - i
DataOfPayload(pl) ==
    [company_name |-> "Test Corp", reporting_currency |-> "PLN",
     reporting_unit |-> "thousands",
     has_periods |-> pl.kind # "absent",
     periods_is_list |-> pl.kind = "list",
     periods |-> [i \in 1 .. Len(pl.shapes) |-> JsonPeriod(pl.shapes[i], 2025 - i)]]

---------------------------------------------------------------------------
(* src/src/models.py : CompanyReport                                       *)

\* CompanyReport(**data) building the report from the periods that validate
\* and skipping the others
CompanyReport_keep_valid(data) ==
    IF ~ (data.has_periods /\ data.periods_is_list) THEN None
    ELSE LET valid(p) == FinancialPeriod(p) # None
             kept == SelectSeq(data.periods, valid)
         IN  Some([company_name |-> data.company_name,
                   reporting_currency |-> data.reporting_currency,
                   reporting_unit |-> data.reporting_unit,
                   periods |-> [i \in 1 .. Len(kept) |-> Val(FinancialPeriod(kept[i]))]])

\* CompanyReport(**data): << report >>, or << >> when a ValidationError is
\* raised.  periods is a required List[FinancialPeriod]: every element is
\* constructed as a FinancialPeriod and one failure fails the report
CompanyReport(data) ==
    IF ~ (data.has_periods /\ data.periods_is_list) THEN None
    ELSE LET objs == [i \in 1 .. Len(data.periods) |->
                         FinancialPeriod(data.periods[i])]
         IN  IF \E i \in 1 .. Len(objs) : objs[i] = None THEN None
             ELSE Some([company_name |-> data.company_name,
                        reporting_currency |-> data.reporting_currency,
                        reporting_unit |-> data.reporting_unit,
                        periods |-> [i \in 1 .. Len(objs) |-> Val(objs[i])]])

---------------------------------------------------------------------------
(* src/src/extractor.py : extract_data                                     *)

\* bool(value) of an Optional string: None and "" are falsy
Truthy(o) == o # None /\ Val(o) # ""

\* a or b
Or(a, b) == IF Truthy(a) THEN a ELSE b

\* api_key as it stands at line 51, for a model_name that does not make the
\* gemini branch raise first
ResolveApiKey(model, env) ==
    IF model.deepseek
    THEN IF ~ Truthy(env.OPENAI_API_KEY) THEN env.DEEPSEEK_API_KEY
                                          ELSE env.OPENAI_API_KEY
    ELSE IF model.gemini
         THEN Or(env.GEMINI_API_KEY, env.OPENAI_API_KEY)
         ELSE env.OPENAI_API_KEY

\* required_fields of the completeness filter
required_fields ==
    {"revenue", "cogs", "ebit", "net_income", "assets", "liabilities", "equity",
     "ocf", "shares_outstanding", "total_debt", "cash_and_equivalents"}

\* all(p.get(field) is not None for field in required_fields), with p[field]
\* tested only for the keys p holds
IsComplete_present_keys(p) ==
    \A field \in required_fields : field \in DOMAIN p => p[field] # None

\* all(p.get(field) is not None for field in required_fields)
IsComplete(p) == \A field \in required_fields : Get(p, field) # None

\* lines 150-162: data with data["periods"] replaced by valid_periods
FilterPeriods(data) ==
    IF data.has_periods /\ data.periods_is_list
    THEN [data EXCEPT !.periods = SelectSeq(data.periods, IsComplete)]
    ELSE data

\* json.loads: the parsed object as << data >>, or << >> for a JSONDecodeError.
\* A text parses when it is one object: "{", its members, "}"
ParseJson(text) ==
    IF /\ Len(text) = 3
       /\ text[1].t = "{"
       /\ text[2].t = "members"
       /\ text[3].t = "}"
    THEN Some(DataOfPayload(text[2].d))
    ELSE None

Fail(err, called) ==
    [status |-> "error", error |-> err, report |-> << >>, called |-> called]

Ok(report) ==
    [status |-> "ok", error |-> "", report |-> report, called |-> TRUE]

\* the body of extract_data for one attempt; llm is what the request to the
\* model yields, if one is sent
extract_data(model, env, llm) ==
    IF ~ Truthy(ResolveApiKey(model, env))
    THEN Fail("ValueError:api_key", FALSE)
    ELSE IF llm.kind = "api_error" THEN Fail("APIError", TRUE)
    ELSE IF llm.content = << >> THEN Fail("ValueError:empty_response", TRUE)
    ELSE LET cleaned_content == clean_json_text(llm.content)
             parsed == ParseJson(cleaned_content)
         IN  IF parsed = None THEN Fail("JSONDecodeError", TRUE)
             ELSE LET data == FilterPeriods(Val(parsed))
                      report == CompanyReport(data)
                  IN  IF report = None THEN Fail("ValidationError", TRUE)
                      ELSE Ok(report)

---------------------------------------------------------------------------
(* src/src/extractor.py : the @retry decorator (tenacity)                  *)

\* stop_after_attempt(5)
MaxAttempts == 5

\* wait_exponential(multiplier=2, min=15, max=120)
WaitMultiplier == 2

WaitMin == 15

WaitMax == 120

\* retry_if_exception_type(Exception): every error extract_data raises is an
\* Exception
retry_if_exception_type(error) == TRUE

\* stop_after_attempt with the comparison written >
stop_after_attempt_gt(attempt_number) == attempt_number > MaxAttempts

\* stop_after_attempt.__call__
stop_after_attempt(attempt_number) == attempt_number >= MaxAttempts

\* wait_exponential.__call__ as tenacity defines it:
\*   exp = exp_base ** (attempt_number - 1); result = multiplier * exp
\*   return max(max(0, min), min(result, max))
\* with exp_base left at its default 2
wait_exponential(attempt_number) ==
    LET exp == 2 ^ (attempt_number - 1)
        result == WaitMultiplier * exp
    IN  Max(Max(0, WaitMin), Min(result, WaitMax))

---------------------------------------------------------------------------
(* src/src/filter.py : filter_financial_pages                              *)
(*                                                                         *)
(* A page is what page.extract_text() does on it: it raises, or it returns *)
(* a text, of which the model keeps whether it is empty and which of the   *)
(* keywords it contains (the keywords are written here without their       *)
(* diacritics).                                                            *)

KEYWORDS ==
    {"skonsolidowane sprawozdanie", "rachunek zyskow i strat",
     "sytuacji finansowej", "przeplywy pieniezne", "aktywa", "pasywa",
     "przychody ze sprzedazy", "zysk netto"}

NEGATIVE_KEYWORDS == {"spis tresci", "strona"}

\* the points of a keyword of either table
Points(keyword) ==
    CASE keyword = "skonsolidowane sprawozdanie" -> 50
      [] keyword \in {"rachunek zyskow i strat", "sytuacji finansowej",
                      "przeplywy pieniezne"} -> 100
      [] keyword \in {"aktywa", "pasywa", "przychody ze sprzedazy",
                      "zysk netto"} -> 20
      [] keyword = "spis tresci" -> -500
      [] keyword = "strona" -> -5

RECURSIVE SumPoints(_)
SumPoints(keywords) ==
    IF keywords = {} THEN 0
    ELSE LET k == CHOOSE x \in keywords : TRUE
         IN  Points(k) + SumPoints(keywords \ {k})

\* the score of a text: the two loops over KEYWORDS and NEGATIVE_KEYWORDS
Score(text) ==
    SumPoints(text.keywords \cap KEYWORDS)
        + SumPoints(text.keywords \cap NEGATIVE_KEYWORDS)

\* the decision written score >= threshold
KeepPage_ge(score, threshold) == score >= threshold

\* the decision: if score > threshold
KeepPage(score, threshold) == score > threshold

---------------------------------------------------------------------------
(* src/src/analyzer.py : FinancialAnalyzer._convert_currency               *)
(*                                                                         *)
(* A row is a dict: a function from its keys to their values.  A numeric   *)
(* value is an Optional integer, the currency is a string.  An exchange    *)
(* rate is held in tenths (4.3 is 43), and Times multiplies an integer by  *)
(* such a rate without forming ten times the product; the result is exact  *)
(* whenever the product is a whole number, which it is for every amount    *)
(* the specifications draw (multiples of ten).                             *)

\* EXCHANGE_RATES, in tenths
EXCHANGE_RATES == [EUR |-> 43, USD |-> 40, PLN |-> 10]

TARGET_CURRENCY == "PLN"

\* str.upper() on the currency codes the specifications draw
Upper(c) ==
    CASE c = "eur" -> "EUR"
      [] c = "Usd" -> "USD"
      [] c = "pln" -> "PLN"
      [] OTHER -> c

\* EXCHANGE_RATES.get(currency) falling back to the USD rate for a currency
\* that is not in the table
RateOf_default_usd(currency) ==
    IF currency \in DOMAIN EXCHANGE_RATES THEN Some(EXCHANGE_RATES[currency])
    ELSE Some(EXCHANGE_RATES["USD"])

\* EXCHANGE_RATES.get(currency)
RateOf(currency) ==
    IF currency \in DOMAIN EXCHANGE_RATES THEN Some(EXCHANGE_RATES[currency])
    ELSE None

\* v * rate for a rate held in tenths
Times(v, rate10) == (v \div 10) * rate10 + ((v % 10) * rate10) \div 10

\* the list metrics
metrics ==
    {"revenue", "cogs", "ebit", "net_income", "depreciation_amortization",
     "assets", "liabilities", "equity", "ocf", "total_debt",
     "cash_and_equivalents"}

\* the loop over metrics with the extended fields left out of the list
Scale_statement_fields_only(row, rate10) ==
    [k \in DOMAIN row |->
        IF k \in (metrics \ {"total_debt", "cash_and_equivalents"})
              /\ row[k] # None
        THEN Some(Times(Val(row[k]), rate10))
        ELSE row[k]]

\* the loop over metrics with equity left out of the list
Scale_without_equity(row, rate10) ==
    [k \in DOMAIN row |->
        IF k \in (metrics \ {"equity"}) /\ row[k] # None
        THEN Some(Times(Val(row[k]), rate10))
        ELSE row[k]]

\* lines 44-46: the loop over metrics
Scale(row, rate10) ==
    [k \in DOMAIN row |->
        IF k \in metrics /\ row[k] # None
        THEN Some(Times(Val(row[k]), rate10))
        ELSE row[k]]

\* bool(row.get(key)) for a numeric value: None and 0 are falsy
NonZero(row, key) == Get(row, key) # None /\ Val(Get(row, key)) # 0

\* lines 51-58: the safeguard for the unit of shares_outstanding
FixSharesUnit(row) ==
    IF NonZero(row, "shares_outstanding") /\ NonZero(row, "revenue")
    THEN LET shares == Val(row["shares_outstanding"])
             revenue == Val(row["revenue"])
         IN  IF shares < 10000000 /\ revenue > 500000000
             THEN [row EXCEPT !["shares_outstanding"] = Some(shares * 1000)]
             ELSE row
    ELSE row

\* row['currency'] = value
SetCurrency(row, value) ==
    [k \in (DOMAIN row) \cup {"currency"} |->
        IF k = "currency" THEN value ELSE row[k]]

\* _convert_currency without line 61: the converted row keeps the currency it
\* came with
convert_currency_keep_label(row) ==
    LET currency == Upper(IF "currency" \in DOMAIN row THEN row["currency"] ELSE "")
    IN  IF currency = TARGET_CURRENCY THEN row
        ELSE LET rate == RateOf(currency)
             IN  IF rate = None \/ Val(rate) = 0 THEN row
                 ELSE FixSharesUnit(Scale(row, Val(rate)))

\* _convert_currency: the row it returns
convert_currency(row) ==
    LET currency == Upper(IF "currency" \in DOMAIN row THEN row["currency"] ELSE "")
    IN  IF currency = TARGET_CURRENCY THEN row
        ELSE LET rate == RateOf(currency)
             IN  IF rate = None \/ Val(rate) = 0 THEN row
                 ELSE SetCurrency(FixSharesUnit(Scale(row, Val(rate))),
                                  TARGET_CURRENCY)

---------------------------------------------------------------------------
(* src/src/analyzer.py : aggregate_data and calculate_metrics              *)
(*                                                                         *)
(* A DataFrame is the sequence of its rows.  A date is held as its year.   *)
(* A quotient is held unevaluated, as its numerator and denominator; a     *)
(* zero denominator stands for the inf or NaN the float division yields.   *)

\* period.model_dump(): the declared fields of the period
model_dump(period) == [f \in ModelFields |-> Some(period[f])]

\* lines 76-83: the row of one period, converted
PeriodRow(report, period) ==
    convert_currency(
        Merge(model_dump(period),
              [company_name |-> report.company_name,
               currency |-> report.reporting_currency,
               reporting_unit |-> report.reporting_unit]))

\* lines 72-85: all_data, report by report and period by period
RECURSIVE AllData(_)
AllData(reports) ==
    IF reports = << >> THEN << >>
    ELSE LET report == Head(reports)
         IN  [j \in 1 .. Len(report.periods) |-> PeriodRow(report, report.periods[j])]
                \o AllData(Tail(reports))

\* lines 94-96: the Year column
WithYear(row) == Merge(row, [Year |-> row["period_end_date"]])

\* the largest number of periods of the reports together, hence of rows of
\* a table
MaxRows == 3

\* the orders in which n rows can be arranged, for each n up to MaxRows
AllOrders ==
    [n \in 0 .. MaxRows |->
        {p \in [1 .. n -> 1 .. n] : \A i, j \in 1 .. n : i # j => p[i] # p[j]}]

Orders(n) == AllOrders[n]

\* the order of a table sorted with ascending=True
SortedAscending(df) ==
    \A i \in 1 .. (Len(df) - 1) :
        Val(df[i]["period_end_date"]) <= Val(df[i + 1]["period_end_date"])

\* the order sort_values('period_end_date', ascending=False) leaves
SortedDescending(df) ==
    \A i \in 1 .. (Len(df) - 1) :
        Val(df[i]["period_end_date"]) >= Val(df[i + 1]["period_end_date"])

\* line 99: the tables the sort may return.  The default sort is not stable:
\* rows with equal dates may come out in any order
sort_values(df) ==
    {sorted \in {[i \in 1 .. Len(df) |-> df[p[i]]] : p \in Orders(Len(df))} :
        SortedDescending(sorted)}

\* the tables aggregate_data may return for self.reports
aggregate_data(reports) ==
    LET all_data == AllData(reports)
    IN  IF all_data = << >> THEN {<< >>}
        ELSE sort_values([i \in 1 .. Len(all_data) |-> WithYear(all_data[i])])

Ratio(n, d) == [num |-> n, den |-> d]

\* the literal 0 of the else branches
Zero == Ratio(0, 1)

\* a / b with no test of b
GuardedRatio_unguarded(a, b) == Ratio(a, b)

\* a / b if b != 0 else 0
GuardedRatio(a, b) == IF b # 0 THEN Ratio(a, b) ELSE Zero

\* .astype(float).fillna(0) on one value
fillna0(o) == IF o = None THEN 0 ELSE Val(o)

\* pct_change(periods=1): the change against the row before
pct_change_forward(df, col, i) ==
    IF i - 1 >= 1
    THEN Some(Ratio(Val(df[i][col]) - Val(df[i - 1][col]), Val(df[i - 1][col])))
    ELSE None

\* df[col].pct_change(periods=-1) at row i: the change against row i + 1,
\* NaN (None) on the last row
pct_change(df, col, i) ==
    IF i + 1 <= Len(df)
    THEN Some(Ratio(Val(df[i][col]) - Val(df[i + 1][col]), Val(df[i + 1][col])))
    ELSE None

\* lines 133-141
cols ==
    {"period_end_date", "Year", "company_name", "currency", "reporting_unit",
     "revenue", "revenue_growth_yoy", "ebitda", "ebitda_margin", "ebit",
     "ebit_margin", "net_income", "net_income_growth_yoy", "net_margin",
     "assets", "assets_growth_yoy", "equity", "equity_growth_yoy", "roe",
     "liabilities", "cogs", "ocf", "shares_outstanding", "total_debt",
     "cash_and_equivalents"}

\* lines 144-146: the columns of cols that exist
SelectCols(row) == [k \in (DOMAIN row) \cap cols |-> row[k]]

\* lines 116-130 for row i of df
WithKpis(df, i) ==
    LET x == df[i]
        revenue == Val(x["revenue"])
        ebitda == Val(x["ebit"]) + fillna0(x["depreciation_amortization"])
    IN  Merge(x,
          [net_margin |-> GuardedRatio(Val(x["net_income"]), revenue),
           ebit_margin |-> GuardedRatio(Val(x["ebit"]), revenue),
           ebitda |-> Some(ebitda),
           ebitda_margin |-> GuardedRatio(ebitda, revenue),
           roe |-> GuardedRatio(Val(x["net_income"]), Val(x["equity"])),
           revenue_growth_yoy |-> pct_change(df, "revenue", i),
           net_income_growth_yoy |-> pct_change(df, "net_income", i),
           assets_growth_yoy |-> pct_change(df, "assets", i),
           equity_growth_yoy |-> pct_change(df, "equity", i)])

\* calculate_metrics: the table it stores in self.df and returns
calculate_metrics(df) ==
    IF df = << >> THEN df
    ELSE [i \in 1 .. Len(df) |-> SelectCols(WithKpis(df, i))]

\* lines 74-85 with the period's own dict taken in place of model_dump(): the
\* conversion then writes into the period
PeriodsAfter_aliased(report) ==
    [j \in 1 .. Len(report.periods) |->
        [f \in ModelFields |-> Val(PeriodRow(report, report.periods[j])[f])]]

\* lines 74-85: report.periods as the loop of aggregate_data leaves them.
\* model_dump() returns a new dict, which is what _convert_currency writes
\* to; nothing is assigned to a report or to a period
PeriodsAfter(report) == report.periods

\* the columns lines 116-130 read from df
MetricInputs ==
    {"net_income", "revenue", "ebit", "depreciation_amortization", "equity",
     "assets"}

\* calculate_metrics on a non-empty df that lacks one of the columns it
\* reads: df[name] raises KeyError
RaisesKeyError(df) == df # << >> /\ ~ (MetricInputs \subseteq DOMAIN df[1])

\* first_row.get(key, default)
GetOr(d, k, default) == IF k \in DOMAIN d THEN d[k] ELSE default

\* the metadata lines 167-169 write into a forecast row
Stamp(first_row) ==
    [company_name |-> GetOr(first_row, "company_name", "Unknown"),
     currency |-> GetOr(first_row, "currency", "N/A"),
     reporting_unit |-> GetOr(first_row, "reporting_unit", "thousands")]

\* enrich_with_forecast without the selection of line 163: every row of
\* forecast_df is stamped and appended
enrich_with_forecast_unfiltered(df, forecast_df) ==
    IF df = << >> THEN << >>
    ELSE df \o [i \in 1 .. Len(forecast_df) |-> Merge(forecast_df[i], Stamp(df[1]))]

\* enrich_with_forecast(forecast_df) with self.df = df: the table it returns
enrich_with_forecast(df, forecast_df) ==
    IF df = << >> THEN << >>
    ELSE LET IsForecast(row) == row["type"] = "Forecast"
             future_only == SelectSeq(forecast_df, IsForecast)
         IN  df \o [i \in 1 .. Len(future_only) |->
                      Merge(future_only[i], Stamp(df[1]))]

---------------------------------------------------------------------------
(* src/src/ml/forecaster.py : RevenueForecaster                            *)
(*                                                                         *)
(* A historical table is a record: whether it has the columns Year and     *)
(* revenue, and the sequence of its rows.  The fitted LinearRegression is  *)
(* held by the sums that determine its line; a value of the line is an     *)
(* unevaluated quotient, and a compounded value is held as its base, its   *)
(* rate and its exponent.                                                  *)

\* RevenueForecaster(years_ahead)
NewForecaster(years_ahead) ==
    [years_ahead |-> years_ahead, model |-> None, last_year |-> None,
     last_revenue |-> None, cagr |-> None]

\* a growth rate given in hundredths: 0.02 is FixedRate(2)
FixedRate(pct) == [kind |-> "fixed", pct |-> pct]

\* (end_val / start_val) ** (1 / years) - 1
RootRate(end_val, start_val, years) ==
    [kind |-> "root", end_val |-> end_val, start_val |-> start_val, years |-> years]

\* the orders sort_values('Year') may leave the rows in; rows with equal
\* Year may come out in any order
SortedByYear(rows) ==
    {sorted \in {[i \in 1 .. Len(rows) |-> rows[p[i]]] : p \in Orders(Len(rows))} :
        \A i \in 1 .. (Len(sorted) - 1) :
            Val(sorted[i]["Year"]) <= Val(sorted[i + 1]["Year"])}

\* the sum of a sequence of numbers
RECURSIVE SumSeq(_)
SumSeq(s) == IF s = << >> THEN 0 ELSE Head(s) + SumSeq(Tail(s))

\* LinearRegression().fit(X, y): least squares on the centred data.  With
\* dx = n * Year - sum of Years and dy = n * revenue - sum of revenues, the
\* slope is sxy / sxx
LinearRegressionFit(df) ==
    LET n == Len(df)
        sx == SumSeq([i \in 1 .. n |-> Val(df[i]["Year"])])
        sy == SumSeq([i \in 1 .. n |-> Val(df[i]["revenue"])])
        dx == [i \in 1 .. n |-> n * Val(df[i]["Year"]) - sx]
        dy == [i \in 1 .. n |-> n * Val(df[i]["revenue"]) - sy]
    IN  [n |-> n, sx |-> sx, sy |-> sy,
         sxx |-> SumSeq([i \in 1 .. n |-> dx[i] * dx[i]]),
         sxy |-> SumSeq([i \in 1 .. n |-> dx[i] * dy[i]])]

\* model.predict for one year: mean revenue + slope * (year - mean Year);
\* when all Years are equal the least-squares slope of least norm is 0
LinearRegressionPredict(model, year) ==
    IF model.sxx = 0 THEN Ratio(model.sy, model.n)
    ELSE Ratio(model.sy * model.sxx + model.sxy * (model.n * year - model.sx),
               model.n * model.sxx)

\* lines 34-63 with the two-or-more test written as len(df) < 1: a single
\* observation is handed to the regression
fit_regress_single(self, df) ==
    IF df = << >> THEN self
    ELSE LET start_val == Val(df[1]["revenue"])
             end_val == Val(df[Len(df)]["revenue"])
             years == Val(df[Len(df)]["Year"]) - Val(df[1]["Year"])
         IN  [self EXCEPT
                 !.last_year = Some(Val(df[Len(df)]["Year"])),
                 !.last_revenue = Some(end_val),
                 !.model = Some(LinearRegressionFit(df)),
                 !.cagr = IF years > 0 /\ start_val > 0
                          THEN Some(RootRate(end_val, start_val, years))
                          ELSE Some(FixedRate(0))]

\* lines 34-63 of fit, for df as the sort of line 32 left it: the forecaster
\* afterwards.  df['Year'].max() is the Year of the last row of the sorted df
fit(self, df) ==
    IF df = << >> THEN self
    ELSE LET start_val == Val(df[1]["revenue"])
             end_val == Val(df[Len(df)]["revenue"])
             years == Val(df[Len(df)]["Year"]) - Val(df[1]["Year"])
         IN  [self EXCEPT
                 !.last_year = Some(Val(df[Len(df)]["Year"])),
                 !.last_revenue = Some(end_val),
                 !.model = IF Len(df) < 2 THEN None
                           ELSE Some(LinearRegressionFit(df)),
                 !.cagr = IF Len(df) < 2 THEN Some(FixedRate(2))
                          ELSE IF years > 0 /\ start_val > 0
                          THEN Some(RootRate(end_val, start_val, years))
                          ELSE Some(FixedRate(0))]

\* last_revenue * ((1 + growth_rate) ** i)
Compound(base, growth_rate, i) ==
    [kind |-> "compound", base |-> base, growth_rate |-> growth_rate, power |-> i]

\* a < b for two quotients with positive denominators
RatioLess(a, b) == a.num * b.den < b.num * a.den

\* np.maximum(a, b) for two quotients
Maximum(a, b) == IF RatioLess(a, b) THEN b ELSE a

\* lines 90-94 with the floor left out: only the second maximum is taken
ApplyFloor_zero_only(value, last_revenue) == Maximum(value, Ratio(0, 1))

\* lines 90-94: floor_value = last_revenue * 0.30, then the two maxima
ApplyFloor(value, last_revenue) ==
    LET floor_value == Ratio(3 * last_revenue, 10)
    IN  Maximum(Maximum(value, floor_value), Ratio(0, 1))

\* line 79-80: one value of the simple-growth path
GrowthValue(self, i) ==
    LET growth_rate == IF self.cagr # None THEN Val(self.cagr) ELSE FixedRate(2)
    IN  Compound(Val(self.last_revenue), growth_rate, i)

\* predict() counting the years from last_year itself: range(0, years_ahead)
predict_from_last_year(self) ==
    IF self.last_year = None THEN << >>
    ELSE [i \in 1 .. self.years_ahead |->
            LET year == Val(self.last_year) + i - 1
            IN  [Year |-> Some(year),
                 revenue |-> Some(IF self.model = None THEN GrowthValue(self, i)
                                  ELSE ApplyFloor(
                                         LinearRegressionPredict(Val(self.model), year),
                                         Val(self.last_revenue))),
                 type |-> "Forecast"]]

\* predict(): the rows of the table it returns
predict(self) ==
    IF self.last_year = None THEN << >>
    ELSE [i \in 1 .. self.years_ahead |->
            LET year == Val(self.last_year) + i
            IN  [Year |-> Some(year),
                 revenue |-> Some(IF self.model = None THEN GrowthValue(self, i)
                                  ELSE ApplyFloor(
                                         LinearRegressionPredict(Val(self.model), year),
                                         Val(self.last_revenue))),
                 type |-> "Forecast"]]

\* get_cagr()
get_cagr(self) == IF self.cagr # None THEN Val(self.cagr) ELSE FixedRate(0)

\* lines 123-125 of predict_future_revenue: the historical rows, sorted and
\* tagged, followed by the forecast
WithHistorical(sorted, forecast_df) ==
    [i \in 1 .. Len(sorted) |->
        [Year |-> sorted[i]["Year"], revenue |-> sorted[i]["revenue"],
         type |-> "Historical"]] \o forecast_df

---------------------------------------------------------------------------
(* src/src/ingest/factory.py : get_ingestion_strategy                      *)
(*                                                                         *)
(* A path is a sequence of tokens: "." and "/" are the characters, every   *)
(* other token is a run of letters.                                        *)

\* str.rfind(ch) on a path: the last position of ch, 0 when there is none
LastIndexOf(path, ch) ==
    IF \E i \in 1 .. Len(path) : path[i] = ch
    THEN CHOOSE i \in 1 .. Len(path) :
            /\ path[i] = ch
            /\ \A j \in (i + 1) .. Len(path) : path[j] # ch
    ELSE 0

\* os.path.splitext(path)[1]: from the last dot on, when that dot comes
\* after the last separator and after a character of the file name that is
\* not a dot; empty otherwise
splitext_ext(path) ==
    LET sepIndex == LastIndexOf(path, "/")
        dotIndex == LastIndexOf(path, ".")
    IN  IF dotIndex > sepIndex
             /\ \E filenameIndex \in (sepIndex + 1) .. (dotIndex - 1) :
                   path[filenameIndex] # "."
        THEN SubSeq(path, dotIndex, Len(path))
        ELSE << >>

\* str.lower() on the tokens the specification draws
LowerToken(tok) ==
    CASE tok = "PDF" -> "pdf"
      [] tok = "Xhtml" -> "xhtml"
      [] OTHER -> tok

lower(ext) == [i \in 1 .. Len(ext) |-> LowerToken(ext[i])]

\* what a call of the factory does
Returns(strategy) == [strategy |-> Some(strategy), raised |-> ""]

Raises(error) == [strategy |-> None, raised |-> error]

\* get_ingestion_strategy without line 20: the extension is compared as it
\* is written
get_ingestion_strategy_case_sensitive(file_path) ==
    LET ext == splitext_ext(file_path)
    IN  IF ext = << ".", "pdf" >> THEN Returns("PDFIngestionStrategy")
        ELSE IF ext \in {<< ".", "xml" >>, << ".", "xhtml" >>}
        THEN Returns("XMLIngestionStrategy")
        ELSE Raises("ValueError")

\* get_ingestion_strategy(file_path)
get_ingestion_strategy(file_path) ==
    LET ext == lower(splitext_ext(file_path))
    IN  IF ext = << ".", "pdf" >> THEN Returns("PDFIngestionStrategy")
        ELSE IF ext \in {<< ".", "xml" >>, << ".", "xhtml" >>}
        THEN Returns("XMLIngestionStrategy")
        ELSE Raises("ValueError")

---------------------------------------------------------------------------
(* Bounds of the constructor's inputs                                      *)

\* assets range over small values and over 100, 200, .. 100 * MaxHundreds,
\* where the 1% tolerance is 1, 2, .. MaxHundreds
MaxHundreds == 3

\* equity is chosen so that assets - (liabilities + equity) ranges over
\* -MaxDelta .. MaxDelta
MaxDelta == 4

AssetValues == {-1, 0, 1, 2} \cup {100 * k : k \in 1 .. MaxHundreds}

LiabilityValues == {-1, 0, 1, 50}

RevenueValues == {-1, 0, 1000}

PeriodKwargs(rev, a, l, e) ==
    [period_end_date |-> Some(2023), revenue |-> Some(rev), cogs |-> Some(500),
     ebit |-> Some(200), net_income |-> Some(150), assets |-> Some(a),
     liabilities |-> Some(l), equity |-> Some(e), ocf |-> Some(250)]

---------------------------------------------------------------------------
(* Specification SpecPeriod: one FinancialPeriod constructor call          *)

InitPeriod ==
    /\ \E rev \in RevenueValues, a \in AssetValues, l \in LiabilityValues,
          d \in (-MaxDelta) .. MaxDelta :
          fp_kwargs = PeriodKwargs(rev, a, l, a - l - d)
    /\ fp_pc = "fields"
    /\ fp_result = "none"
    /\ fp_obj = None
    /\ ClIdle
    /\ ExIdle
    /\ FlIdle
    /\ CaIdle
    /\ CvIdle
    /\ AnIdle
    /\ SeIdle
    /\ FcIdle
    /\ IgIdle
    /\ IdIdle

\* field validation (types, required, ge=0); on failure the ValidationError is
\* raised and the after-validator never runs
ValidateFields ==
    /\ fp_pc = "fields"
    /\ IF FieldsValid(fp_kwargs)
       THEN /\ fp_pc' = "validator"
            /\ UNCHANGED <<fp_result, fp_obj>>
       ELSE /\ fp_pc' = "done"
            /\ fp_result' = "ValidationError"
            /\ fp_obj' = None
    /\ UNCHANGED fp_kwargs
    /\ UNCHANGED otherThanFp

\* the mode='after' model validator
CheckAccountingEquation ==
    /\ fp_pc = "validator"
    /\ fp_pc' = "done"
    /\ IF check_accounting_equation(FieldValues(fp_kwargs))
       THEN /\ fp_result' = "ok"
            /\ fp_obj' = Some(FieldValues(fp_kwargs))
       ELSE /\ fp_result' = "ValidationError"
            /\ fp_obj' = None
    /\ UNCHANGED fp_kwargs
    /\ UNCHANGED otherThanFp

NextPeriod ==
    \/ ValidateFields
    \/ CheckAccountingEquation

SpecPeriod == InitPeriod /\ [][NextPeriod]_vars

---------------------------------------------------------------------------
(* Specification SpecClean: one model response of the form                 *)
(*   <think> R </think> P1 opening-fence J closing-fence P2, J = { body }  *)
(* taken through the sanitizing and parsing lines of extract_data          *)

\* the total number of tokens in R, P1, body and P2 together
MaxText == 3

Alphabet ==
    {Tok("x"), Tok("ws"), Tok("{"), Tok("}"), Tok("<think>"), Tok("</think>"),
     Tok("fence"), Tok("fence_json")}

BoundedSeq(S, n) == UNION {[1 .. m -> S] : m \in 0 .. n}

OpeningFences == {"fence_json", "fence"}

JsonOf(parts) == << LBrace >> \o parts.body \o << RBrace >>

Assemble(parts) ==
    << Tok("<think>") >> \o parts.R \o << Tok("</think>") >> \o parts.P1
        \o << Tok(parts.fence) >> \o JsonOf(parts) \o << Tok("fence") >> \o parts.P2

InitClean ==
    /\ \E s \in BoundedSeq(Alphabet, MaxText), fence \in OpeningFences :
       \E i \in 0 .. Len(s) : \E j \in i .. Len(s) : \E k \in j .. Len(s) :
          cl_parts = [R |-> SubSeq(s, 1, i), P1 |-> SubSeq(s, i + 1, j),
                      fence |-> fence, body |-> SubSeq(s, j + 1, k),
                      P2 |-> SubSeq(s, k + 1, Len(s))]
    /\ cl_content = << >>
    /\ cl_pc = "idle"
    /\ cl_cleaned = << >>
    /\ cl_loads_arg = << >>
    /\ FpIdle
    /\ ExIdle
    /\ FlIdle
    /\ CaIdle
    /\ CvIdle
    /\ AnIdle
    /\ SeIdle
    /\ FcIdle
    /\ IgIdle
    /\ IdIdle

\* content = response.choices[0].message.content
ReceiveResponse ==
    /\ cl_pc = "idle"
    /\ cl_content' = Assemble(cl_parts)
    /\ cl_pc' = "received"
    /\ UNCHANGED <<cl_parts, cl_cleaned, cl_loads_arg>>
    /\ UNCHANGED otherThanCl

\* cleaned_content = _clean_json_text(content); json.loads(cleaned_content)
CleanAndLoad ==
    /\ cl_pc = "received"
    /\ cl_content # << >>
    /\ cl_cleaned' = clean_json_text(cl_content)
    /\ cl_loads_arg' = cl_cleaned'
    /\ cl_pc' = "parsed"
    /\ UNCHANGED <<cl_parts, cl_content>>
    /\ UNCHANGED otherThanCl

NextClean ==
    \/ ReceiveResponse
    \/ CleanAndLoad

SpecClean == InitClean /\ [][NextClean]_vars

---------------------------------------------------------------------------
(* Specification SpecExtract: one call of extract_data under @retry        *)

\* the longest "periods" list of a model response
MaxPeriods == 2

\* what the members of a response object are: a "periods" list of the given
\* shapes, "periods": null, or no "periods" key
Payloads ==
    {[kind |-> "list", shapes |-> sh] : sh \in BoundedSeq(PeriodShapes, MaxPeriods)}
        \cup {[kind |-> "null", shapes |-> << >>],
              [kind |-> "absent", shapes |-> << >>]}

Members(pl) == [t |-> "members", d |-> pl]

JsonText(pl) == << LBrace, Members(pl), RBrace >>

\* a response that is the object alone, one inside a code fence, and one
\* after a reasoning block and between prose
Bare(pl) == JsonText(pl)

Fenced(pl) ==
    << Tok("fence_json"), Tok("ws") >> \o JsonText(pl) \o << Tok("ws"), Tok("fence") >>

Reasoned(pl) ==
    << Tok("<think>"), Tok("x"), Tok("{"), Tok("</think>"), Tok("x"),
       Tok("fence_json") >> \o JsonText(pl) \o << Tok("fence"), Tok("x") >>

\* responses that hold no parsable object: empty, prose only, a truncated
\* object, and an object after prose that holds a brace
Unparsable(pl) ==
    {<< >>, << Tok("x") >>, << LBrace, Members(pl) >>,
     << Tok("x"), LBrace >> \o JsonText(pl)}

ResponseContents ==
    UNION {{Bare(pl), Fenced(pl), Reasoned(pl)} : pl \in Payloads}
        \cup Unparsable([kind |-> "list", shapes |-> << >>])

LLMOutcomes ==
    {[kind |-> "api_error", content |-> << >>]}
        \cup {[kind |-> "content", content |-> c] : c \in ResponseContents}

EnvValues(key) == {None, Some(""), Some(key)}

InitExtract ==
    /\ ex_model \in [deepseek : BOOLEAN, gemini : BOOLEAN]
    /\ ex_env \in [OPENAI_API_KEY : EnvValues("openai-key"),
                   DEEPSEEK_API_KEY : EnvValues("deepseek-key"),
                   GEMINI_API_KEY : EnvValues("gemini-key")]
    /\ ex_pc = "call"
    /\ ex_attempt = 1
    /\ ex_llm_calls = 0
    /\ ex_waits = << >>
    /\ ex_llm = NoCall
    /\ ex_outcome = NoOutcome
    /\ ex_returned = << >>
    /\ ex_raised = ""
    /\ FpIdle
    /\ ClIdle
    /\ FlIdle
    /\ CaIdle
    /\ CvIdle
    /\ AnIdle
    /\ SeIdle
    /\ FcIdle
    /\ IgIdle
    /\ IdIdle

\* one attempt: extract_data runs, then tenacity returns its result, re-raises
\* its exception (stop reached, reraise=True) or schedules a sleep
Attempt ==
    /\ ex_pc = "call"
    /\ \E llm \in LLMOutcomes :
          \E r \in {extract_data(ex_model, ex_env, llm)} :
              /\ ex_outcome' = r
              /\ ex_llm' = IF r.called THEN llm ELSE NoCall
              /\ ex_llm_calls' = IF r.called THEN ex_llm_calls + 1 ELSE ex_llm_calls
              /\ IF r.status = "ok"
                 THEN /\ ex_pc' = "returned"
                      /\ ex_returned' = r.report
                      /\ ex_raised' = ex_raised
                 ELSE IF retry_if_exception_type(r.error)
                            /\ ~ stop_after_attempt(ex_attempt)
                      THEN /\ ex_pc' = "backoff"
                           /\ UNCHANGED <<ex_returned, ex_raised>>
                      ELSE /\ ex_pc' = "raised"
                           /\ ex_raised' = r.error
                           /\ ex_returned' = ex_returned
    /\ UNCHANGED <<ex_model, ex_env, ex_attempt, ex_waits>>
    /\ UNCHANGED otherThanEx

\* the sleep before the next attempt; the failed attempt's locals are gone
Backoff ==
    /\ ex_pc = "backoff"
    /\ ex_waits' = Append(ex_waits, wait_exponential(ex_attempt))
    /\ ex_attempt' = ex_attempt + 1
    /\ ex_llm' = NoCall
    /\ ex_pc' = "call"
    /\ UNCHANGED <<ex_model, ex_env, ex_llm_calls, ex_outcome, ex_returned, ex_raised>>
    /\ UNCHANGED otherThanEx

NextExtract ==
    \/ Attempt
    \/ Backoff

SpecExtract == InitExtract /\ [][NextExtract]_vars

---------------------------------------------------------------------------
(* Specification SpecFilter: one call of filter_financial_pages            *)

\* the longest document
MaxPages == 3

Text(keywords) == [kind |-> "text", empty |-> FALSE, keywords |-> keywords]

\* the pages a document may hold: one whose extraction raises, one with an
\* empty text, and texts scoring 0, 50, 45, 100, 40, 60, -400 and -5
PageKinds ==
    {[kind |-> "raises", empty |-> TRUE, keywords |-> {}],
     [kind |-> "text", empty |-> TRUE, keywords |-> {}],
     Text({}),
     Text({"skonsolidowane sprawozdanie"}),
     Text({"skonsolidowane sprawozdanie", "strona"}),
     Text({"rachunek zyskow i strat"}),
     Text({"aktywa", "pasywa"}),
     Text({"aktywa", "pasywa", "zysk netto"}),
     Text({"spis tresci", "rachunek zyskow i strat"}),
     Text({"strona"})}

Thresholds == {-10, 0, 50}

InitFilter ==
    /\ fl_pages \in BoundedSeq(PageKinds, MaxPages)
    /\ fl_threshold \in Thresholds
    /\ fl_exists \in BOOLEAN
    /\ fl_pc = "start"
    /\ fl_i = 0
    /\ fl_writer = << >>
    /\ fl_pages_kept = 0
    /\ fl_output = [written |-> FALSE, pages |-> << >>]
    /\ fl_return = "none"
    /\ FpIdle
    /\ ClIdle
    /\ ExIdle
    /\ CaIdle
    /\ CvIdle
    /\ AnIdle
    /\ SeIdle
    /\ FcIdle
    /\ IgIdle
    /\ IdIdle

\* lines 33-42: the existence check, the reader and the writer
OpenInput ==
    /\ fl_pc = "start"
    /\ IF fl_exists
       THEN /\ fl_pc' = "scan"
            /\ fl_i' = 1
            /\ fl_return' = fl_return
       ELSE /\ fl_pc' = "done"
            /\ fl_return' = "FileNotFoundError"
            /\ fl_i' = fl_i
    /\ UNCHANGED <<fl_pages, fl_threshold, fl_exists, fl_writer, fl_pages_kept,
                   fl_output>>
    /\ UNCHANGED otherThanFl

\* one iteration of the loop over reader.pages
ScanPage ==
    /\ fl_pc = "scan"
    /\ fl_i <= Len(fl_pages)
    /\ LET page == fl_pages[fl_i]
       IN  IF page.kind = "raises" \/ page.empty
           THEN UNCHANGED <<fl_writer, fl_pages_kept>>
           ELSE IF KeepPage(Score(page), fl_threshold)
                THEN /\ fl_writer' = Append(fl_writer, fl_i)
                     /\ fl_pages_kept' = fl_pages_kept + 1
                ELSE UNCHANGED <<fl_writer, fl_pages_kept>>
    /\ fl_i' = fl_i + 1
    /\ UNCHANGED <<fl_pages, fl_threshold, fl_exists, fl_pc, fl_output, fl_return>>
    /\ UNCHANGED otherThanFl

\* lines 73-85: write the kept pages and return True, or return False
Finish ==
    /\ fl_pc = "scan"
    /\ fl_i > Len(fl_pages)
    /\ IF fl_pages_kept > 0
       THEN /\ fl_output' = [written |-> TRUE, pages |-> fl_writer]
            /\ fl_return' = "True"
       ELSE /\ fl_output' = fl_output
            /\ fl_return' = "False"
    /\ fl_pc' = "done"
    /\ UNCHANGED <<fl_pages, fl_threshold, fl_exists, fl_i, fl_writer, fl_pages_kept>>
    /\ UNCHANGED otherThanFl

NextFilter ==
    \/ OpenInput
    \/ ScanPage
    \/ Finish

SpecFilter == InitFilter /\ [][NextFilter]_vars

---------------------------------------------------------------------------
(* Specification SpecCaller: one document through a caller of the filter,  *)
(* from the filter call to the call of extract_data                        *)

\* what a call of filter_financial_pages does: it returns True after writing
\* output_path, returns False, or raises (FileNotFoundError, or an error of
\* PdfReader on a file that is not a PDF)
FilterOutcomes == {"True", "False", "raises"}

\* parsing_path (main.py:47,52-53) and file_to_parse (app.py:93,97-98) with
\* the filtered path taken whatever the filter returned
ChooseParsingPath_no_fallback(returned) == "filtered"

\* parsing_path (main.py:47,52-53) and file_to_parse (app.py:93,97-98): the
\* filtered path when the filter returned True, the input path otherwise
ChooseParsingPath(returned) == IF returned = "True" THEN "filtered" ELSE "original"

InitCaller ==
    /\ ca_caller \in {"main", "app"}
    /\ ca_use_filter \in BOOLEAN
    /\ ca_is_pdf \in BOOLEAN
    /\ ca_filter \in FilterOutcomes
    /\ ca_parse_ok \in BOOLEAN
    /\ ca_pc = "start"
    /\ ca_returned = "not_called"
    /\ ca_path = "original"
    /\ ca_parsed = << >>
    /\ FpIdle
    /\ ClIdle
    /\ ExIdle
    /\ FlIdle
    /\ CvIdle
    /\ AnIdle
    /\ SeIdle
    /\ FcIdle
    /\ IgIdle
    /\ IdIdle

\* main.py:46-60.  An exception of the filter is caught and the original
\* document is used
MainFilter ==
    /\ ca_caller = "main"
    /\ ca_pc = "start"
    /\ IF ca_use_filter
       THEN IF ca_filter = "raises"
            THEN /\ ca_returned' = "raised"
                 /\ ca_path' = "original"
            ELSE /\ ca_returned' = ca_filter
                 /\ ca_path' = ChooseParsingPath(ca_filter)
       ELSE /\ ca_returned' = "not_called"
            /\ ca_path' = "original"
    /\ ca_pc' = "parse"
    /\ UNCHANGED <<ca_caller, ca_use_filter, ca_is_pdf, ca_filter, ca_parse_ok,
                   ca_parsed>>
    /\ UNCHANGED otherThanCa

\* main.py:62-69: parse_pdf(parsing_path); a failure ends the process
MainParse ==
    /\ ca_caller = "main"
    /\ ca_pc = "parse"
    /\ ca_parsed' = Some(ca_path)
    /\ ca_pc' = IF ca_parse_ok THEN "extract" ELSE "exit"
    /\ UNCHANGED <<ca_caller, ca_use_filter, ca_is_pdf, ca_filter, ca_parse_ok,
                   ca_returned, ca_path>>
    /\ UNCHANGED otherThanCa

\* app.py:92-98.  The filter runs for a PDF when use_filter is set; an
\* exception of the filter reaches the handler at line 153
AppFilter ==
    /\ ca_caller = "app"
    /\ ca_pc = "start"
    /\ IF ca_is_pdf /\ ca_use_filter
       THEN IF ca_filter = "raises"
            THEN /\ ca_returned' = "raised"
                 /\ ca_path' = "original"
                 /\ ca_pc' = "error"
            ELSE /\ ca_returned' = ca_filter
                 /\ ca_path' = ChooseParsingPath(ca_filter)
                 /\ ca_pc' = "parse"
       ELSE /\ ca_returned' = "not_called"
            /\ ca_path' = "original"
            /\ ca_pc' = "parse"
    /\ UNCHANGED <<ca_caller, ca_use_filter, ca_is_pdf, ca_filter, ca_parse_ok,
                   ca_parsed>>
    /\ UNCHANGED otherThanCa

\* app.py:100-105: strategy.parse(file_to_parse), then extract_data; a failure
\* reaches the handler at line 153
AppParse ==
    /\ ca_caller = "app"
    /\ ca_pc = "parse"
    /\ ca_parsed' = Some(ca_path)
    /\ ca_pc' = IF ca_parse_ok THEN "extract" ELSE "error"
    /\ UNCHANGED <<ca_caller, ca_use_filter, ca_is_pdf, ca_filter, ca_parse_ok,
                   ca_returned, ca_path>>
    /\ UNCHANGED otherThanCa

NextCaller ==
    \/ MainFilter
    \/ MainParse
    \/ AppFilter
    \/ AppParse

SpecCaller == InitCaller /\ [][NextCaller]_vars

---------------------------------------------------------------------------
(* Specification SpecConvert: _convert_currency called on one row, and     *)
(* called again on the row it returned                                     *)

\* the currency codes of a row: the table's codes in several cases, a code
\* the table does not hold, and the empty string
RowCurrencies == {"EUR", "eur", "USD", "Usd", "PLN", "pln", "GBP", ""}

\* revenue: null, zero, a small amount, and amounts that reach 500,000,000
\* exactly (125,000,000 at 4.0) or exceed it once converted
RowRevenues == {None, Some(0), Some(100), Some(125000000), Some(130000000)}

\* shares_outstanding: null, zero, and counts below and at 10,000,000
RowShares == {None, Some(0), Some(100), Some(2000000), Some(10000000)}

\* the other monetary fields of a row: all present, some null or absent, or
\* none but assets
RowRest ==
    {[cogs |-> Some(60), ebit |-> Some(30), net_income |-> Some(-20),
      depreciation_amortization |-> Some(10), assets |-> Some(200),
      liabilities |-> Some(100), equity |-> Some(100), ocf |-> Some(40),
      total_debt |-> Some(50), cash_and_equivalents |-> Some(20)],
     [cogs |-> Some(60), ebit |-> Some(30), net_income |-> Some(-20),
      depreciation_amortization |-> None, assets |-> Some(200),
      liabilities |-> Some(100), equity |-> Some(100), ocf |-> Some(40),
      total_debt |-> None],
     [assets |-> Some(200)]}

\* the rows of the specification; the currency and shares_outstanding keys
\* may be absent
Rows ==
    LET withRevenue == {Merge(rest, [revenue |-> rev]) :
                            rest \in RowRest, rev \in RowRevenues}
        withShares == withRevenue \cup
                      {Merge(r, [shares_outstanding |-> sh]) :
                            r \in withRevenue, sh \in RowShares}
    IN  withShares \cup
        {Merge(r, [currency |-> c]) : r \in withShares, c \in RowCurrencies}

InitConvert ==
    /\ cv_input \in Rows
    /\ cv_row = cv_input
    /\ cv_first = << >>
    /\ cv_pc = "call"
    /\ FpIdle
    /\ ClIdle
    /\ ExIdle
    /\ FlIdle
    /\ CaIdle
    /\ AnIdle
    /\ SeIdle
    /\ FcIdle
    /\ IgIdle
    /\ IdIdle

\* row = self._convert_currency(row)
Convert ==
    /\ cv_pc = "call"
    /\ cv_row' = convert_currency(cv_row)
    /\ cv_first' = Some(cv_row')
    /\ cv_pc' = "once"
    /\ UNCHANGED cv_input
    /\ UNCHANGED otherThanCv

\* the same call on the row the first call returned
ConvertAgain ==
    /\ cv_pc = "once"
    /\ cv_row' = convert_currency(cv_row)
    /\ cv_pc' = "twice"
    /\ UNCHANGED <<cv_input, cv_first>>
    /\ UNCHANGED otherThanCv

NextConvert ==
    \/ Convert
    \/ ConvertAgain

SpecConvert == InitConvert /\ [][NextConvert]_vars

---------------------------------------------------------------------------
(* Specification SpecAnalyze: two reports are built from keyword           *)
(* arguments, as the tests build them, and handed to a FinancialAnalyzer   *)

\* the periods a report may be built from: the two periods of the growth
\* example (revenue 100 in 2021, 90 in 2020), a period with zero revenue
\* and zero equity, one whose depreciation_amortization is None, and one
\* with large revenue that passes the extended fields
PeriodInputs ==
    {[period_end_date |-> Some(2021), revenue |-> Some(100), cogs |-> Some(60),
      ebit |-> Some(30), net_income |-> Some(20), assets |-> Some(200),
      liabilities |-> Some(100), equity |-> Some(100), ocf |-> Some(40)],
     [period_end_date |-> Some(2020), revenue |-> Some(90), cogs |-> Some(50),
      ebit |-> Some(20), net_income |-> Some(10), assets |-> Some(180),
      liabilities |-> Some(90), equity |-> Some(90), ocf |-> Some(30),
      depreciation_amortization |-> Some(10)],
     [period_end_date |-> Some(2021), revenue |-> Some(0), cogs |-> Some(0),
      ebit |-> Some(-10), net_income |-> Some(-20), assets |-> Some(100),
      liabilities |-> Some(100), equity |-> Some(0), ocf |-> Some(0),
      depreciation_amortization |-> Some(10)],
     [period_end_date |-> Some(2022), revenue |-> Some(1000), cogs |-> Some(600),
      ebit |-> Some(300), net_income |-> Some(240), assets |-> Some(2000),
      liabilities |-> Some(1000), equity |-> Some(1000), ocf |-> Some(350),
      depreciation_amortization |-> None],
     [period_end_date |-> Some(2022), revenue |-> Some(400000000),
      cogs |-> Some(600), ebit |-> Some(300), net_income |-> Some(240),
      assets |-> Some(2000), liabilities |-> Some(1000), equity |-> Some(1000),
      ocf |-> Some(350), depreciation_amortization |-> Some(50),
      shares_outstanding |-> Some(5000), total_debt |-> Some(500),
      cash_and_equivalents |-> Some(100)]}

\* the reporting currencies of a report: a table currency, the target in
\* upper and in lower case, and one the table does not hold
ReportCurrencies == {"EUR", "PLN", "pln", "GBP"}

ReportInput(name, currency, periods) ==
    [company_name |-> name, reporting_currency |-> currency,
     reporting_unit |-> "thousands", has_periods |-> TRUE,
     periods_is_list |-> TRUE, periods |-> periods]

InitAnalyze ==
    /\ \E ps \in BoundedSeq(PeriodInputs, MaxRows) :
       \E k \in 0 .. Len(ps) :
       \E c1, c2 \in ReportCurrencies :
          an_inputs = << ReportInput("Alpha Corp", c1, SubSeq(ps, 1, k)),
                         ReportInput("Beta Corp", c2, SubSeq(ps, k + 1, Len(ps))) >>
    /\ an_reports = << >>
    /\ an_pc = "construct"
    /\ an_df = << >>
    /\ an_agg = << >>
    /\ an_out = << >>
    /\ FpIdle
    /\ ClIdle
    /\ ExIdle
    /\ FlIdle
    /\ CaIdle
    /\ CvIdle
    /\ SeIdle
    /\ FcIdle
    /\ IgIdle
    /\ IdIdle

\* FinancialPeriod(...) for every period, CompanyReport(...) for both reports
\* and FinancialAnalyzer(reports); a ValidationError ends the run
Construct ==
    /\ an_pc = "construct"
    /\ \E built \in {[r \in 1 .. Len(an_inputs) |-> CompanyReport(an_inputs[r])]} :
          IF \E r \in 1 .. Len(built) : built[r] = None
          THEN /\ an_pc' = "raised"
               /\ an_reports' = an_reports
          ELSE /\ an_pc' = "aggregate"
               /\ an_reports' = [r \in 1 .. Len(built) |-> Val(built[r])]
    /\ UNCHANGED <<an_inputs, an_df, an_agg, an_out>>
    /\ UNCHANGED otherThanAn

\* analyzer.aggregate_data()
Aggregate ==
    /\ an_pc = "aggregate"
    /\ \E df \in aggregate_data(an_reports) :
          /\ an_df' = df
          /\ an_agg' = df
    /\ an_pc' = "metrics"
    /\ UNCHANGED <<an_inputs, an_reports, an_out>>
    /\ UNCHANGED otherThanAn

\* analyzer.calculate_metrics(); the table aggregate_data returned is left as
\* it was (the KPIs are added to a copy)
CalculateMetrics ==
    /\ an_pc = "metrics"
    /\ an_df' = calculate_metrics(an_df)
    /\ an_out' = an_df'
    /\ an_pc' = "done"
    /\ UNCHANGED <<an_inputs, an_reports, an_agg>>
    /\ UNCHANGED otherThanAn

NextAnalyze ==
    \/ Construct
    \/ Aggregate
    \/ CalculateMetrics

SpecAnalyze == InitAnalyze /\ [][NextAnalyze]_vars

---------------------------------------------------------------------------
(* Specification SpecSession: one FinancialAnalyzer over two reports, and  *)
(* aggregate_data, calculate_metrics and enrich_with_forecast called on it *)
(* in any order                                                            *)

\* the largest number of calls made on the analyzer
MaxCalls == 4

\* the periods of the reports: revenue 100 in 2021 with no
\* depreciation_amortization given, revenue 90 in 2020 with one
SessionPeriods ==
    {[period_end_date |-> Some(2021), revenue |-> Some(100), cogs |-> Some(60),
      ebit |-> Some(30), net_income |-> Some(20), assets |-> Some(200),
      liabilities |-> Some(100), equity |-> Some(100), ocf |-> Some(40)],
     [period_end_date |-> Some(2020), revenue |-> Some(90), cogs |-> Some(50),
      ebit |-> Some(20), net_income |-> Some(10), assets |-> Some(180),
      liabilities |-> Some(90), equity |-> Some(90), ocf |-> Some(30),
      depreciation_amortization |-> Some(10)]}

\* a currency that is converted and one that the table does not hold
SessionCurrencies == {"EUR", "GBP"}

ForecastRow(year, revenue, type) ==
    [Year |-> Some(year), revenue |-> Some(revenue), type |-> type]

\* the tables handed to enrich_with_forecast: an empty one, one forecast
\* row, and a table that mixes a historical row with forecast rows, one of
\* which brings a currency of its own
ForecastTables ==
    {<< >>,
     << ForecastRow(2022, 110, "Forecast") >>,
     << ForecastRow(2021, 100, "Historical"),
        ForecastRow(2022, 110, "Forecast"),
        Merge(ForecastRow(2023, 120, "Forecast"), [currency |-> "USD"]) >>}

\* what se_last holds after a call
CallRecord(call, raised, table, arg) ==
    Some([call |-> call, raised |-> raised, table |-> table, arg |-> arg])

InitSession ==
    /\ \E ps \in BoundedSeq(SessionPeriods, MaxRows) :
       \E k \in 0 .. Len(ps) :
       \E c1, c2 \in SessionCurrencies :
          se_built =
             << Val(CompanyReport(ReportInput("Alpha Corp", c1, SubSeq(ps, 1, k)))),
                Val(CompanyReport(ReportInput("Beta Corp", c2,
                                              SubSeq(ps, k + 1, Len(ps))))) >>
    /\ se_reports = se_built
    /\ se_df = << >>
    /\ se_pc = "ready"
    /\ se_calls = 0
    /\ se_prev = << >>
    /\ se_last = << >>
    /\ se_first_agg = << >>
    /\ FpIdle
    /\ ClIdle
    /\ ExIdle
    /\ FlIdle
    /\ CaIdle
    /\ CvIdle
    /\ AnIdle
    /\ FcIdle
    /\ IgIdle
    /\ IdIdle

\* analyzer.aggregate_data()
SessionAggregate ==
    /\ se_pc = "ready"
    /\ se_calls < MaxCalls
    /\ \E df \in aggregate_data(se_reports) :
          /\ se_df' = df
          /\ se_last' = CallRecord("aggregate_data", "", df, << >>)
          /\ se_first_agg' = IF se_first_agg = None THEN Some(df) ELSE se_first_agg
    /\ se_reports' = [r \in 1 .. Len(se_reports) |->
                         [se_reports[r] EXCEPT !.periods = PeriodsAfter(se_reports[r])]]
    /\ se_prev' = se_last
    /\ se_calls' = se_calls + 1
    /\ UNCHANGED <<se_built, se_pc>>
    /\ UNCHANGED otherThanSe

\* analyzer.calculate_metrics(); a KeyError leaves self.df as it was
SessionCalculateMetrics ==
    /\ se_pc = "ready"
    /\ se_calls < MaxCalls
    /\ IF RaisesKeyError(se_df)
       THEN /\ se_df' = se_df
            /\ se_last' = CallRecord("calculate_metrics", "KeyError", << >>, << >>)
       ELSE /\ se_df' = calculate_metrics(se_df)
            /\ se_last' = CallRecord("calculate_metrics", "", se_df', << >>)
    /\ se_prev' = se_last
    /\ se_calls' = se_calls + 1
    /\ UNCHANGED <<se_built, se_reports, se_pc, se_first_agg>>
    /\ UNCHANGED otherThanSe

\* analyzer.enrich_with_forecast(forecast_df)
SessionEnrich ==
    /\ se_pc = "ready"
    /\ se_calls < MaxCalls
    /\ \E forecast_df \in ForecastTables :
          se_last' = CallRecord("enrich_with_forecast", "",
                                enrich_with_forecast(se_df, forecast_df), forecast_df)
    /\ se_prev' = se_last
    /\ se_calls' = se_calls + 1
    /\ UNCHANGED <<se_built, se_reports, se_df, se_pc, se_first_agg>>
    /\ UNCHANGED otherThanSe

NextSession ==
    \/ SessionAggregate
    \/ SessionCalculateMetrics
    \/ SessionEnrich

SpecSession == InitSession /\ [][NextSession]_vars

---------------------------------------------------------------------------
(* Specification SpecForecast: a RevenueForecaster on which fit, predict   *)
(* and get_cagr are called, or one call of predict_future_revenue          *)

\* the largest years_ahead
MaxYearsAhead == 2

\* the largest number of calls of fit on one forecaster
MaxFits == 2

\* the rows of a historical table: revenue 100 in 2020, 55 or 110 in 2021
\* and 0 in 2022.  100 then 55 is a decline whose line passes below 30% of
\* 55; 100 then 110 is growth; the two rows of 2021 are rows of equal Year;
\* a last revenue of 0 makes the floor 0
Observations ==
    {[Year |-> Some(2020), revenue |-> Some(100)],
     [Year |-> Some(2021), revenue |-> Some(55)],
     [Year |-> Some(2021), revenue |-> Some(110)],
     [Year |-> Some(2022), revenue |-> Some(0)]}

\* the tables handed to fit: up to MaxRows of the observations, each at most
\* once and in any order, and a table that has no columns at all
Histories ==
    {[has_columns |-> TRUE, rows |-> rows] :
        rows \in {r \in BoundedSeq(Observations, MaxRows) :
                    \A a, b \in DOMAIN r : a # b => r[a] # r[b]}}
        \cup {[has_columns |-> FALSE, rows |-> << >>]}

\* the forecaster object, from its fields
Self ==
    [years_ahead |-> fc_years_ahead, model |-> fc_model, last_year |-> fc_last_year,
     last_revenue |-> fc_last_revenue, cagr |-> fc_cagr]

\* what fc_last_fit holds after a call of fit
FitRecord(arg, raised, sorted) ==
    Some([arg |-> arg, raised |-> raised, sorted |-> sorted])

InitForecast ==
    /\ fc_years_ahead \in 1 .. MaxYearsAhead
    /\ fc_model = NewForecaster(fc_years_ahead).model
    /\ fc_last_year = NewForecaster(fc_years_ahead).last_year
    /\ fc_last_revenue = NewForecaster(fc_years_ahead).last_revenue
    /\ fc_cagr = NewForecaster(fc_years_ahead).cagr
    /\ fc_pc = "ready"
    /\ fc_fits = 0
    /\ fc_last_fit = << >>
    /\ fc_out = << >>
    /\ fc_reported = << >>
    /\ fc_legacy = << >>
    /\ FpIdle
    /\ ClIdle
    /\ ExIdle
    /\ FlIdle
    /\ CaIdle
    /\ CvIdle
    /\ AnIdle
    /\ SeIdle
    /\ IgIdle
    /\ IdIdle

\* forecaster.fit(historical_df); a table without the two columns raises
\* ValueError at line 29 and leaves the forecaster as it was
Fit ==
    /\ fc_pc = "ready"
    /\ fc_fits < MaxFits
    /\ \E historical_df \in Histories :
          IF ~ historical_df.has_columns
          THEN /\ fc_last_fit' = FitRecord(historical_df, "ValueError", << >>)
               /\ UNCHANGED <<fc_model, fc_last_year, fc_last_revenue, fc_cagr>>
          ELSE \E df \in SortedByYear(historical_df.rows) :
               \E after \in {fit(Self, df)} :
                  /\ fc_last_fit' = FitRecord(historical_df, "", df)
                  /\ fc_model' = after.model
                  /\ fc_last_year' = after.last_year
                  /\ fc_last_revenue' = after.last_revenue
                  /\ fc_cagr' = after.cagr
    /\ fc_fits' = fc_fits + 1
    /\ fc_out' = << >>
    /\ fc_reported' = << >>
    /\ UNCHANGED <<fc_years_ahead, fc_pc, fc_legacy>>
    /\ UNCHANGED otherThanFc

\* forecaster.predict()
Predict ==
    /\ fc_pc = "ready"
    /\ fc_out = << >>
    /\ fc_out' = Some(predict(Self))
    /\ UNCHANGED <<fc_years_ahead, fc_model, fc_last_year, fc_last_revenue, fc_cagr,
                   fc_pc, fc_fits, fc_last_fit, fc_reported, fc_legacy>>
    /\ UNCHANGED otherThanFc

\* forecaster.get_cagr()
GetCagr ==
    /\ fc_pc = "ready"
    /\ fc_reported = << >>
    /\ fc_reported' = Some(get_cagr(Self))
    /\ UNCHANGED <<fc_years_ahead, fc_model, fc_last_year, fc_last_revenue, fc_cagr,
                   fc_pc, fc_fits, fc_last_fit, fc_out, fc_legacy>>
    /\ UNCHANGED otherThanFc

\* predict_future_revenue(historical_df, years_ahead): a forecaster of its
\* own, fit, predict, and the historical rows put in front.  The ValueError
\* of fit passes through
PredictFutureRevenue ==
    /\ fc_pc = "ready"
    /\ fc_fits = 0
    /\ fc_out = << >>
    /\ fc_reported = << >>
    /\ \E historical_df \in Histories :
          IF ~ historical_df.has_columns
          THEN fc_legacy' = Some([arg |-> historical_df, raised |-> "ValueError",
                                  table |-> << >>])
          ELSE \E df \in SortedByYear(historical_df.rows) :
               \E sorted \in SortedByYear(historical_df.rows) :
                  fc_legacy' =
                     Some([arg |-> historical_df, raised |-> "",
                           table |-> WithHistorical(sorted,
                                        predict(fit(NewForecaster(fc_years_ahead), df)))])
    /\ fc_pc' = "done"
    /\ UNCHANGED <<fc_years_ahead, fc_model, fc_last_year, fc_last_revenue, fc_cagr,
                   fc_fits, fc_last_fit, fc_out, fc_reported>>
    /\ UNCHANGED otherThanFc

NextForecast ==
    \/ Fit
    \/ Predict
    \/ GetCagr
    \/ PredictFutureRevenue

SpecForecast == InitForecast /\ [][NextForecast]_vars

---------------------------------------------------------------------------
(* Specification SpecIngest: the factory is called for a path and, when it *)
(* returned a strategy, the caller calls the strategy's parse              *)

\* the largest number of tokens of a path
MaxPath == 4

PathTokens == {"report", ".", "/", "pdf", "PDF", "xml", "Xhtml", "txt"}

InitIngest ==
    /\ ig_path \in BoundedSeq(PathTokens, MaxPath)
    /\ ig_pc = "call"
    /\ ig_strategy = << >>
    /\ ig_raised = ""
    /\ ig_parse_calls = 0
    /\ FpIdle
    /\ ClIdle
    /\ ExIdle
    /\ FlIdle
    /\ CaIdle
    /\ CvIdle
    /\ AnIdle
    /\ SeIdle
    /\ FcIdle
    /\ IdIdle

\* strategy = get_ingestion_strategy(input_path)
GetIngestionStrategy ==
    /\ ig_pc = "call"
    /\ \E result \in {get_ingestion_strategy(ig_path)} :
          /\ ig_strategy' = result.strategy
          /\ ig_raised' = result.raised
          /\ ig_pc' = IF result.raised = "" THEN "returned" ELSE "raised"
    /\ UNCHANGED <<ig_path, ig_parse_calls>>
    /\ UNCHANGED otherThanIg

\* strategy.parse(file_to_parse), reached only with a strategy in hand
Parse ==
    /\ ig_pc = "returned"
    /\ ig_parse_calls' = ig_parse_calls + 1
    /\ ig_pc' = "parsed"
    /\ UNCHANGED <<ig_path, ig_strategy, ig_raised>>
    /\ UNCHANGED otherThanIg

NextIngest ==
    \/ GetIngestionStrategy
    \/ Parse

SpecIngest == InitIngest /\ [][NextIngest]_vars

---------------------------------------------------------------------------
(* Specification SpecIdentity: a FinancialPeriod is built, put alone in a  *)
(* report of a currency of the exchange-rate table, and aggregated         *)

\* assets below 100, where the tolerance of the validator is the absolute
\* 1.0, and from 100 on, where it is 1% of the assets
IdentityAssets == {0, 2, 50, 100, 300, 1000}

IdentityLiabilities == {0, 20, 50}

\* assets - (liabilities + equity): small differences, and ten, which is 1%
\* of the assets 1000
IdentityDeltas == ((-MaxDelta) .. MaxDelta) \cup {-10, 10}

\* an amount times 4.3 is a whole number when the amount is a multiple of
\* ten; an EUR report is drawn with such amounts only
WholeInCurrency(kw, currency) ==
    Upper(currency) = "EUR" =>
        \A f \in {"assets", "liabilities", "equity"} : Val(kw[f]) % 10 = 0

InitIdentity ==
    /\ \E a \in IdentityAssets, l \in IdentityLiabilities, d \in IdentityDeltas :
          id_kwargs = PeriodKwargs(1000, a, l, a - l - d)
    /\ id_currency \in DOMAIN EXCHANGE_RATES
    /\ WholeInCurrency(id_kwargs, id_currency)
    /\ id_pc = "construct"
    /\ id_reports = << >>
    /\ id_df = << >>
    /\ FpIdle
    /\ ClIdle
    /\ ExIdle
    /\ FlIdle
    /\ CaIdle
    /\ CvIdle
    /\ AnIdle
    /\ SeIdle
    /\ FcIdle
    /\ IgIdle

\* FinancialPeriod(...), CompanyReport(...) and FinancialAnalyzer([report]);
\* a ValidationError ends the run
IdentityConstruct ==
    /\ id_pc = "construct"
    /\ \E report \in {CompanyReport(ReportInput("Alpha Corp", id_currency,
                                                << id_kwargs >>))} :
          IF report = None
          THEN /\ id_pc' = "raised"
               /\ id_reports' = id_reports
          ELSE /\ id_pc' = "aggregate"
               /\ id_reports' = << Val(report) >>
    /\ UNCHANGED <<id_kwargs, id_currency, id_df>>
    /\ UNCHANGED otherThanId

\* analyzer.aggregate_data()
IdentityAggregate ==
    /\ id_pc = "aggregate"
    /\ id_df' \in aggregate_data(id_reports)
    /\ id_pc' = "done"
    /\ UNCHANGED <<id_kwargs, id_currency, id_reports>>
    /\ UNCHANGED otherThanId

NextIdentity ==
    \/ IdentityConstruct
    \/ IdentityAggregate

SpecIdentity == InitIdentity /\ [][NextIdentity]_vars

---------------------------------------------------------------------------
(* C1: a FinancialPeriod construction succeeds if and only if revenue,     *)
(* assets and liabilities are non-negative and                             *)
(* |assets - (liabilities + equity)| <= max(1.0, 0.01 * assets); otherwise *)
(* it fails with a validation error and no object exists.  A difference    *)
(* exactly equal to the tolerance is accepted.                             *)
C1_ConstructionIffValid ==
    fp_pc = "done" =>
        LET rev == Val(fp_kwargs["revenue"])
            a == Val(fp_kwargs["assets"])
            l == Val(fp_kwargs["liabilities"])
            e == Val(fp_kwargs["equity"])
            within == IF a >= 100 THEN 100 * Abs(a - (l + e)) <= a
                                  ELSE Abs(a - (l + e)) <= 1
            valid == rev >= 0 /\ a >= 0 /\ l >= 0 /\ within
        IN  /\ fp_result = "ok" <=> valid
            /\ fp_result # "ok" => fp_result = "ValidationError" /\ fp_obj = None
            /\ fp_result = "ok" => /\ Len(fp_obj) = 1
                                   /\ Val(fp_obj)["assets"] = a
                                   /\ Val(fp_obj)["equity"] = e

\* a construction that succeeded with the difference exactly at the 1%
\* tolerance (assets 200, difference 2)
C1_Witness ==
    /\ fp_pc = "done"
    /\ fp_result = "ok"
    /\ Val(fp_kwargs["assets"]) = 200
    /\ Abs(200 - (Val(fp_kwargs["liabilities"]) + Val(fp_kwargs["equity"]))) = 2

---------------------------------------------------------------------------
Has(text, tok) == \E i \in 1 .. Len(text) : text[i].t = tok

(* C9 as claimed: for any JSON object text J, any reasoning text R and any *)
(* surrounding prose, sanitizing <think>R</think> + prose + fence + J +    *)
(* fence + prose returns exactly J, and that text is what is parsed.       *)
C9_AnyProseRecoversJson ==
    cl_pc = "parsed" =>
        /\ cl_cleaned = JsonOf(cl_parts)
        /\ cl_loads_arg = cl_cleaned

\* the responses on which the first "{" and the last "}" of what remains
\* after stripping are those of J
C9_Recoverable ==
    /\ ~ Has(cl_parts.R, "</think>")
    /\ ~ Has(cl_parts.P1, "<think>")
    /\ ~ Has(cl_parts.P1, "{")
    /\ ~ Has(cl_parts.body, "<think>")
    /\ ~ Has(cl_parts.body, "fence")
    /\ ~ Has(cl_parts.body, "fence_json")
    /\ ~ Has(cl_parts.P2, "}")

(* C9 as amended: sanitizing such a response returns exactly J provided R  *)
(* holds no "</think>", J holds no "<think>" and no code-fence marker, the *)
(* prose before J holds no "{" and no "<think>", and the prose after J     *)
(* holds no "}"; the sanitized text is what json.loads is given.           *)
C9_RecoversJson ==
    cl_pc = "parsed" =>
        /\ cl_loads_arg = cl_cleaned
        /\ C9_Recoverable => cl_cleaned = JsonOf(cl_parts)

\* a recovered J whose reasoning block held a brace and whose trailing prose
\* was not empty
C9_Witness ==
    /\ cl_pc = "parsed"
    /\ C9_Recoverable
    /\ Has(cl_parts.R, "{")
    /\ cl_parts.P2 # << >>
    /\ cl_cleaned = JsonOf(cl_parts)

---------------------------------------------------------------------------
(* Claims about extract_data, checked under SpecExtract                    *)

\* an attempt has run and tenacity has decided what follows it
AttemptDone == ex_pc \in {"backoff", "returned", "raised"}

\* the failures the retry policy is meant for
Transient(error) ==
    error \in {"APIError", "ValueError:empty_response", "JSONDecodeError"}

\* the running attempt received a response that parsed to an object with a
\* "periods" list
ParsedPeriods ==
    /\ AttemptDone
    /\ ex_llm.kind = "content"
    /\ ParseJson(clean_json_text(ex_llm.content)) # None
    /\ Val(ParseJson(clean_json_text(ex_llm.content))).periods_is_list

\* that list
ResponsePeriods == Val(ParseJson(clean_json_text(ex_llm.content))).periods

(* C2: a transient failure (API error, empty response, malformed JSON)     *)
(* causes another attempt until one succeeds or 5 attempts have been made; *)
(* a success returns that attempt's report with no further attempt; after  *)
(* 5 failed attempts the last attempt's error is re-raised; never more     *)
(* than 5 model calls are made.                                            *)
C2_RetriesUpToFiveAttempts ==
    /\ ex_attempt \in 1 .. 5
    /\ ex_llm_calls <= ex_attempt
    /\ Len(ex_waits) = ex_attempt - 1
    /\ (AttemptDone /\ ex_outcome.status = "error" /\ Transient(ex_outcome.error))
          => IF ex_attempt < 5
             THEN ex_pc = "backoff" /\ ENABLED Backoff
             ELSE ex_pc = "raised" /\ ex_raised = ex_outcome.error
    /\ ex_pc = "returned"
          => /\ ex_outcome.status = "ok"
             /\ Len(ex_returned) = 1
             /\ ex_returned = ex_outcome.report
             /\ ~ ENABLED NextExtract
    /\ ex_pc = "raised" => ~ ENABLED NextExtract

\* five attempts were made, each sent a request, the fifth failed on
\* malformed JSON and that error reached the caller
C2_Witness ==
    /\ ex_pc = "raised"
    /\ ex_raised = "JSONDecodeError"
    /\ ex_attempt = 5
    /\ ex_llm_calls = 5
    /\ Len(ex_waits) = 4

(* C3: a validation error raised while constructing a retained period is   *)
(* not retried: it reaches the caller at once, and when it happens on the  *)
(* first attempt there has been one model call and no backoff wait.        *)
C3_ValidationErrorNotRetried ==
    (AttemptDone /\ ex_outcome.error = "ValidationError")
        => /\ ex_pc = "raised"
           /\ ex_raised = "ValidationError"
           /\ ex_attempt = 1 => ex_waits = << >> /\ ex_llm_calls = 1

(* C4: when no API credential resolves, extract_data fails with a          *)
(* configuration error surfaced immediately: one attempt, no backoff wait, *)
(* no retry, and no request to the language model.                         *)
C4_MissingCredentialNotRetried ==
    (AttemptDone /\ ex_outcome.error = "ValueError:api_key")
        => /\ ex_pc = "raised"
           /\ ex_raised = "ValueError:api_key"
           /\ ex_attempt = 1
           /\ ex_waits = << >>
           /\ ex_llm_calls = 0

(* C5: the waits between the attempts of one call are strictly increasing: *)
(* the first is the 15 s base delay, each next one is twice the previous   *)
(* one, and none exceeds the 120 s cap.                                    *)
C5_WaitsStrictlyIncrease ==
    Truthy(ResolveApiKey(ex_model, ex_env)) =>
    \A i \in 1 .. Len(ex_waits) :
        /\ ex_waits[i] <= 120
        /\ i = 1 => ex_waits[i] = 15
        /\ i > 1 => /\ ex_waits[i] > ex_waits[i - 1]
                    /\ ex_waits[i] = Min(2 * ex_waits[i - 1], 120)

(* C6: a period of the parsed response is retained if and only if every    *)
(* required field is present and non-null; the others are dropped without  *)
(* raising, the retained ones keep their order, and dropping a period      *)
(* never by itself makes the extraction fail.                              *)
C6_CompletenessFilter ==
    ParsedPeriods =>
        LET complete(p) == \A f \in required_fields : f \in DOMAIN p /\ p[f] # None
            retained == SelectSeq(ResponsePeriods, complete)
        IN  /\ ex_pc = "returned" =>
                 /\ Len(Val(ex_returned).periods) = Len(retained)
                 /\ \A i \in 1 .. Len(retained) :
                       Val(ex_returned).periods[i]["period_end_date"]
                           = Val(retained[i]["period_end_date"])
            /\ (\A i \in 1 .. Len(retained) : FinancialPeriod(retained[i]) # None)
                  => ex_outcome.status = "ok"

\* a returned report that holds the second of two periods, the first having
\* been dropped
C6_Witness ==
    /\ ParsedPeriods
    /\ ex_pc = "returned"
    /\ Len(ResponsePeriods) = 2
    /\ Len(Val(ex_returned).periods) = 1
    /\ Val(ex_returned).periods[1]["period_end_date"] = 2023

\* the response of test_filter_incomplete_periods: a period with the eight
\* statement fields and no extended field, then one with cogs null
TestResponse == Bare([kind |-> "list", shapes |-> << "core", "null_cogs" >>])

(* C7: a period with non-null revenue, cogs, ebit, net_income, assets,     *)
(* liabilities, equity and ocf that omits the optional extended fields is  *)
(* retained and one with a null cogs is dropped: for a response with one   *)
(* of each the returned report has exactly the one complete period.        *)
C7_CorePeriodRetained ==
    (AttemptDone /\ ex_llm.kind = "content" /\ ex_llm.content = TestResponse)
        => /\ ex_pc = "returned"
           /\ Len(Val(ex_returned).periods) = 1
           /\ Val(ex_returned).periods[1]["period_end_date"] = 2024

C8_WitnessDropped ==
    /\ ParsedPeriods
    /\ Len(ResponsePeriods) = 2
    /\ ~ IsComplete(ResponsePeriods[1])
    /\ ex_pc = "returned"
    /\ Len(Val(ex_returned).periods) = 1

---------------------------------------------------------------------------
(* Claims about filter_financial_pages, checked under SpecFilter           *)

\* the pages the claim says are kept: the text is extractable and non-empty
\* and its score is strictly greater than the threshold
C10_Kept ==
    {i \in 1 .. Len(fl_pages) :
        /\ fl_pages[i].kind = "text"
        /\ ~ fl_pages[i].empty
        /\ Score(fl_pages[i]) > fl_threshold}

C10_WitnessAllNegative ==
    /\ fl_pc = "done"
    /\ fl_threshold = 50
    /\ Len(fl_pages) = 2
    /\ \A i \in 1 .. 2 : fl_pages[i].kind = "text" /\ Score(fl_pages[i]) < 0
    /\ fl_return = "False"

---------------------------------------------------------------------------
(* Claims about the callers of the filter, checked under SpecCaller        *)

(* C11: in both callers of the filter the document handed to the           *)
(* document-to-text step is the filtered document if and only if           *)
(* filter_financial_pages returned True; when it returned False the        *)
(* original document is parsed and the pipeline goes on to extraction      *)
(* instead of aborting.                                                    *)
C11_FailOpen ==
    /\ ca_parsed # << >> =>
          (Val(ca_parsed) = "filtered" <=> ca_returned = "True")
    /\ ca_returned = "False" =>
          /\ ca_pc \in {"parse", "extract", "exit", "error"}
          /\ ca_pc = "parse" => ENABLED NextCaller
          /\ ca_pc # "parse" => ca_parsed = Some("original")
          /\ (ca_pc # "parse" /\ ca_parse_ok) => ca_pc = "extract"
          /\ ca_pc \in {"exit", "error"} => ~ ca_parse_ok

\* the filter returned False in the Streamlit app, the original document was
\* parsed and extraction is reached
C11_Witness ==
    /\ ca_caller = "app"
    /\ ca_returned = "False"
    /\ ca_parsed = Some("original")
    /\ ca_pc = "extract"

\* the filter returned True in the CLI and the filtered document was parsed
C11_WitnessFiltered ==
    /\ ca_caller = "main"
    /\ ca_returned = "True"
    /\ ca_parsed = Some("filtered")

---------------------------------------------------------------------------
(* Claims about _convert_currency, checked under SpecConvert               *)

\* the row carries the code of a table currency other than the target, in
\* any case
C12_KnownNonTarget ==
    /\ "currency" \in DOMAIN cv_input
    /\ cv_input["currency"] \in {"EUR", "eur", "USD", "Usd"}

\* the table rate of that code, in tenths: EUR 4.3, USD 4.0
C12_Rate == IF cv_input["currency"] \in {"EUR", "eur"} THEN 43 ELSE 40

(* C12: for a row whose currency is a known non-target currency of the     *)
(* exchange-rate table (EUR 4.3, USD 4.0), matched case-insensitively,     *)
(* conversion multiplies each present, non-null monetary field by exactly  *)
(* that rate, exactly once, leaves null and absent fields as they are and  *)
(* sets the row's currency to the target currency.                         *)
C12_ConvertsKnownCurrency ==
    (cv_pc \in {"once", "twice"} /\ C12_KnownNonTarget) =>
        LET out == Val(cv_first)
        IN  /\ DOMAIN out = DOMAIN cv_input
            /\ out["currency"] = "PLN"
            /\ \A k \in metrics \cap DOMAIN cv_input :
                  IF cv_input[k] = None THEN out[k] = None
                  ELSE /\ out[k] # None
                       /\ Val(cv_input[k]) % 10 = 0
                       /\ Val(out[k]) = C12_Rate * (Val(cv_input[k]) \div 10)
            /\ cv_pc = "twice" => cv_row = out

\* a row in "eur" with every monetary field present: revenue 100 became 430,
\* assets 200 became 860, total_debt 50 became 215, and the second call
\* changed nothing
C12_Witness ==
    /\ cv_pc = "twice"
    /\ "currency" \in DOMAIN cv_input
    /\ cv_input["currency"] = "eur"
    /\ cv_input["revenue"] = Some(100)
    /\ "total_debt" \in DOMAIN cv_input
    /\ cv_input["total_debt"] = Some(50)
    /\ cv_row["revenue"] = Some(430)
    /\ cv_row["assets"] = Some(860)
    /\ cv_row["total_debt"] = Some(215)
    /\ cv_row["currency"] = "PLN"

---------------------------------------------------------------------------
(* Claims about aggregate_data and calculate_metrics, checked under        *)
(* SpecAnalyze                                                             *)

\* the periods the reports were built from, in the order supplied, each with
\* its report's company and currency
Sources ==
    LET of(r) == [j \in 1 .. Len(an_inputs[r].periods) |->
                     [company |-> an_inputs[r].company_name,
                      currency |-> an_inputs[r].reporting_currency,
                      kw |-> an_inputs[r].periods[j]]]
    IN  of(1) \o of(2)

Aggregated == an_pc \in {"metrics", "done"}

\* the monetary fields a FinancialPeriod declares
MoneyFields == ModelFields \ {"period_end_date"}

\* the value a period was given for a field; an absent
\* depreciation_amortization counts as zero
Given(kw, f) == IF f \in DOMAIN kw THEN Val(kw[f]) ELSE 0

\* v in a report of the given currency, expressed as the claims expect it in
\* the table: times 4.3 for EUR, as it is for PLN and for a currency the
\* table does not hold
Normalized(v, currency) == IF currency = "EUR" THEN 43 * (v \div 10) ELSE v

\* the row is the row of that period: company, date and every monetary value
RowOf(row, src) ==
    /\ row["company_name"] = src.company
    /\ row["period_end_date"] = src.kw["period_end_date"]
    /\ \A f \in MoneyFields :
          /\ Given(src.kw, f) % 10 = 0
          /\ row[f] = Some(Normalized(Given(src.kw, f), src.currency))

\* the rows of the table can be paired with the periods supplied, one row
\* per period, each row being the row of its period
Paired(table) ==
    \E S \in {Sources} :
        /\ Len(table) = Len(S)
        /\ \E p \in Orders(Len(S)) :
              \A i \in 1 .. Len(S) : RowOf(table[i], S[p[i]])

(* C13: conversion leaves a row whose currency is the target unchanged and *)
(* is idempotent: applied again to a row of the table it changes nothing.  *)
(* When reports in EUR and in PLN are aggregated together every row        *)
(* reports currency PLN, the EUR rows' monetary values are scaled by the   *)
(* EUR rate and the PLN rows keep their original values.                   *)
C13_TargetUnchangedAndIdempotent ==
    Aggregated =>
        /\ \A i \in 1 .. Len(an_agg) : convert_currency(an_agg[i]) = an_agg[i]
        /\ (\A r \in 1 .. 2 : an_inputs[r].reporting_currency \in {"EUR", "PLN"})
              => /\ Paired(an_agg)
                 /\ \A i \in 1 .. Len(an_agg) : an_agg[i]["currency"] = "PLN"

\* an EUR report and a PLN report aggregated together: the EUR period's
\* revenue 100 is 430 in the table and the PLN period's 90 is still 90
C13_Witness ==
    /\ an_pc = "done"
    /\ an_inputs[1].reporting_currency = "EUR"
    /\ an_inputs[2].reporting_currency = "PLN"
    /\ Len(an_agg) = 2
    /\ an_agg[1]["company_name"] = "Alpha Corp"
    /\ an_agg[1]["revenue"] = Some(430)
    /\ an_agg[1]["currency"] = "PLN"
    /\ an_agg[2]["company_name"] = "Beta Corp"
    /\ an_agg[2]["revenue"] = Some(90)
    /\ an_agg[2]["currency"] = "PLN"

\* a report in a currency the table does not hold, with at least one period
C14_HasUnknownCurrency ==
    \E r \in 1 .. 2 :
        /\ an_inputs[r].reporting_currency = "GBP"
        /\ an_inputs[r].periods # << >>

(* C14: a row whose currency is not in the exchange-rate table passes      *)
(* through unconverted: no error is raised, every monetary field keeps its *)
(* original value, and the other rows are aggregated as usual.             *)
C14_UnknownCurrencyPassesThrough ==
    C14_HasUnknownCurrency =>
        /\ an_pc = "raised" =>
              \E S \in {Sources} : \E i \in 1 .. Len(S) : FinancialPeriod(S[i].kw) = None
        /\ an_pc = "aggregate" => aggregate_data(an_reports) # {}
        /\ Aggregated => Paired(an_agg)
        /\ an_pc = "done" => Len(an_out) = Len(Sources)

\* a GBP report and an EUR report aggregated together: the GBP period keeps
\* its revenue 100, the EUR period's 90 became 387
C14_Witness ==
    /\ an_pc = "done"
    /\ an_inputs[1].reporting_currency = "GBP"
    /\ an_inputs[2].reporting_currency = "EUR"
    /\ Len(an_out) = 2
    /\ an_out[1]["company_name"] = "Alpha Corp"
    /\ an_out[1]["revenue"] = Some(100)
    /\ an_out[2]["revenue"] = Some(387)

(* C15: in the aggregated table every row's currency equals the target     *)
(* currency PLN, whatever reporting currencies the reports declared.       *)
C15_EveryRowInTargetCurrency ==
    /\ Aggregated => \A i \in 1 .. Len(an_agg) : an_agg[i]["currency"] = "PLN"
    /\ an_pc = "done" => \A i \in 1 .. Len(an_out) : an_out[i]["currency"] = "PLN"

\* the row holds the share count the claim expects for that period
C16_SharesOf(row, src) ==
    /\ row["company_name"] = src.company
    /\ row["period_end_date"] = src.kw["period_end_date"]
    /\ "shares_outstanding" \in DOMAIN src.kw =>
          /\ "shares_outstanding" \in DOMAIN row
          /\ LET shares == Val(src.kw["shares_outstanding"])
                 triggers == shares < 10000000 /\ Val(row["revenue"]) > 500000000
             IN  row["shares_outstanding"] =
                     Some(IF triggers THEN 1000 * shares ELSE shares)

(* C16: for every row the aggregator processes, whatever its currency,     *)
(* shares_outstanding is multiplied by 1000 if and only if it is below     *)
(* 10,000,000 and the converted revenue is above 500,000,000, and is left  *)
(* unchanged otherwise.                                                    *)
C16_SharesUnitHeuristic ==
    Aggregated =>
        \E S \in {Sources} :
            /\ Len(an_agg) = Len(S)
            /\ \E p \in Orders(Len(S)) :
                  \A i \in 1 .. Len(S) : C16_SharesOf(an_agg[i], S[p[i]])

(* C17: calculate_metrics never divides by zero in the margins and in roe: *)
(* with revenue 0 the three margins are 0, with equity 0 roe is 0;         *)
(* otherwise net_margin = net_income / revenue, ebit_margin = ebit /       *)
(* revenue, ebitda_margin = ebitda / revenue and roe = net_income /        *)
(* equity, on the converted values, with ebitda = ebit +                   *)
(* depreciation_amortization.                                              *)
C17_GuardedRatios ==
    an_pc = "done" =>
        /\ Len(an_out) = Len(an_agg)
        /\ \A i \in 1 .. Len(an_out) :
              LET a == an_agg[i]
                  o == an_out[i]
                  revenue == Val(a["revenue"])
                  equity == Val(a["equity"])
                  ebitda == Val(a["ebit"]) + Val(a["depreciation_amortization"])
              IN  /\ o["ebitda"] = Some(ebitda)
                  /\ \A k \in {"net_margin", "ebit_margin", "ebitda_margin", "roe"} :
                        o[k].den # 0
                  /\ IF revenue = 0
                     THEN /\ o["net_margin"] = [num |-> 0, den |-> 1]
                          /\ o["ebit_margin"] = [num |-> 0, den |-> 1]
                          /\ o["ebitda_margin"] = [num |-> 0, den |-> 1]
                     ELSE /\ o["net_margin"] = [num |-> Val(a["net_income"]), den |-> revenue]
                          /\ o["ebit_margin"] = [num |-> Val(a["ebit"]), den |-> revenue]
                          /\ o["ebitda_margin"] = [num |-> ebitda, den |-> revenue]
                  /\ IF equity = 0
                     THEN o["roe"] = [num |-> 0, den |-> 1]
                     ELSE o["roe"] = [num |-> Val(a["net_income"]), den |-> equity]

\* a table with a row of zero revenue and zero equity, whose ratios are all
\* 0, and an EUR row whose net margin is 86 / 430
C17_Witness ==
    /\ an_pc = "done"
    /\ \E i \in 1 .. Len(an_out) :
          /\ an_out[i]["revenue"] = Some(0)
          /\ an_out[i]["equity"] = Some(0)
          /\ an_out[i]["net_margin"] = [num |-> 0, den |-> 1]
          /\ an_out[i]["roe"] = [num |-> 0, den |-> 1]
    /\ \E i \in 1 .. Len(an_out) :
          /\ an_out[i]["net_margin"] = [num |-> 86, den |-> 430]
          /\ an_out[i]["ebitda"] = Some(129)

\* a period was given depreciation_amortization = None
C18_GivenNone(kw) ==
    "depreciation_amortization" \in DOMAIN kw /\ kw["depreciation_amortization"] = None

\* a period was given no depreciation_amortization, or None
C18_Missing(kw) == "depreciation_amortization" \notin DOMAIN kw \/ C18_GivenNone(kw)

(* C18: a FinancialPeriod given depreciation_amortization = None is        *)
(* constructed successfully and, like one given no                         *)
(* depreciation_amortization at all, has ebitda equal to ebit in the       *)
(* aggregated table.                                                       *)
C18_NullDepreciationAccepted ==
    /\ an_pc = "raised" =>
          \E S \in {Sources} : \E i \in 1 .. Len(S) :
              ~ C18_GivenNone(S[i].kw) /\ FinancialPeriod(S[i].kw) = None
    /\ an_pc = "done" =>
          \E S \in {Sources} :
              /\ Len(an_out) = Len(S)
              /\ \E p \in Orders(Len(S)) :
                    \A i \in 1 .. Len(S) :
                       /\ an_out[i]["company_name"] = S[p[i]].company
                       /\ an_out[i]["period_end_date"] = S[p[i]].kw["period_end_date"]
                       /\ C18_Missing(S[p[i]].kw) => an_out[i]["ebitda"] = an_out[i]["ebit"]

\* the four columns for which growth is computed
C19_GrowthColumns == {"revenue", "net_income", "assets", "equity"}

(* C19: in the KPI table, for revenue, net_income, assets and equity, the  *)
(* growth of the row at position i of the date-descending order is         *)
(* (value_i - value_{i+1}) / value_{i+1}, whichever company row i + 1      *)
(* belongs to; the last row has no growth value.                           *)
C19_GrowthAgainstNextRow ==
    an_pc = "done" =>
        \A i \in 1 .. Len(an_out) : \A col \in C19_GrowthColumns :
            LET growth == an_out[i][col \o "_growth_yoy"]
            IN  IF i = Len(an_out) THEN growth = << >>
                ELSE /\ Val(an_out[i]["period_end_date"])
                            >= Val(an_out[i + 1]["period_end_date"])
                     /\ Len(growth) = 1
                     /\ growth[1].num = Val(an_out[i][col]) - Val(an_out[i + 1][col])
                     /\ growth[1].den = Val(an_out[i + 1][col])

\* revenue 100 in 2021 for one company and 90 in 2020 for another, both in
\* PLN: the 2021 row has growth (100 - 90) / 90 and the 2020 row has none
C19_Witness ==
    /\ an_pc = "done"
    /\ Len(an_out) = 2
    /\ an_out[1]["company_name"] # an_out[2]["company_name"]
    /\ an_out[1]["period_end_date"] = Some(2021)
    /\ an_out[1]["revenue"] = Some(100)
    /\ an_out[2]["period_end_date"] = Some(2020)
    /\ an_out[2]["revenue"] = Some(90)
    /\ an_out[1]["revenue_growth_yoy"] = Some([num |-> 10, den |-> 90])
    /\ an_out[2]["revenue_growth_yoy"] = << >>

\* the table has one row per period supplied and is ordered newest first
C20_OneRowPerPeriodNewestFirst(table) ==
    /\ \E S \in {Sources} :
          /\ Len(table) = Len(S)
          /\ \E p \in Orders(Len(S)) :
                \A i \in 1 .. Len(S) :
                   /\ table[i]["company_name"] = S[p[i]].company
                   /\ table[i]["period_end_date"] = S[p[i]].kw["period_end_date"]
                   /\ table[i]["Year"] = S[p[i]].kw["period_end_date"]
                   /\ table[i]["cogs"] = Some(Normalized(Given(S[p[i]].kw, "cogs"),
                                                         S[p[i]].currency))
    /\ \A i, j \in 1 .. Len(table) :
          i < j => Val(table[i]["period_end_date"]) >= Val(table[j]["period_end_date"])

(* C20: the table aggregate_data returns and the table calculate_metrics   *)
(* returns each have exactly one row per period of the input reports,      *)
(* ordered by period_end_date descending, in whatever order the reports    *)
(* and their periods were supplied.                                        *)
C20_RowsSortedNewestFirst ==
    /\ Aggregated => C20_OneRowPerPeriodNewestFirst(an_agg)
    /\ an_pc = "done" => C20_OneRowPerPeriodNewestFirst(an_out)

\* three periods supplied oldest first across two reports come out newest
\* first
C20_Witness ==
    /\ an_pc = "done"
    /\ Len(Sources) = 3
    /\ Val(Sources[1].kw["period_end_date"]) = 2020
    /\ Val(Sources[2].kw["period_end_date"]) = 2021
    /\ Val(Sources[3].kw["period_end_date"]) = 2022
    /\ Sources[1].company # Sources[3].company
    /\ an_out[1]["period_end_date"] = Some(2022)
    /\ an_out[2]["period_end_date"] = Some(2021)
    /\ an_out[3]["period_end_date"] = Some(2020)

---------------------------------------------------------------------------
\* the columns calculate_metrics derives
C21_KpiColumns ==
    {"net_margin", "ebit_margin", "ebitda", "ebitda_margin", "roe",
     "revenue_growth_yoy", "net_income_growth_yoy", "assets_growth_yoy",
     "equity_growth_yoy"}

\* the extended fields a period may be given beyond the declared ones
C21_ExtendedFields == {"shares_outstanding", "total_debt", "cash_and_equivalents"}

\* the row is the row of that period and carries every field of it
C21_CarriesAllFields(row, src) ==
    /\ row["company_name"] = src.company
    /\ row["period_end_date"] = src.kw["period_end_date"]
    /\ ({"company_name", "currency", "reporting_unit", "Year"} \cup C21_KpiColumns)
          \subseteq DOMAIN row
    /\ \A f \in MoneyFields :
          /\ f \in DOMAIN row
          /\ row[f] = Some(Normalized(Given(src.kw, f), src.currency))
    /\ \A f \in C21_ExtendedFields \cap DOMAIN src.kw :
          /\ f \in DOMAIN row
          /\ row[f] = IF f = "shares_outstanding" THEN src.kw[f]
                      ELSE Some(Normalized(Val(src.kw[f]), src.currency))

(* C21: every row of the final KPI table (aggregate_data, then             *)
(* calculate_metrics) carries all FinancialPeriod fields of its period,    *)
(* depreciation_amortization included, and the extended fields             *)
(* shares_outstanding, total_debt and cash_and_equivalents when they were  *)
(* supplied, with the supplied (normalized) values, besides company_name,  *)
(* currency, reporting_unit, Year and the derived KPI columns.             *)
C21_KpiRowsCarryAllFields ==
    an_pc = "done" =>
        \E S \in {Sources} :
            /\ Len(an_out) = Len(S)
            /\ \E p \in Orders(Len(S)) :
                  \A i \in 1 .. Len(S) : C21_CarriesAllFields(an_out[i], S[p[i]])

---------------------------------------------------------------------------
(* Claims about a FinancialAnalyzer used for several calls, checked under  *)
(* SpecSession                                                             *)

\* the last call made on the analyzer was a call of that method
LastCallWas(call) == se_last # << >> /\ Val(se_last).call = call

\* the rows of a table whose type is 'Forecast', in the table's order
C22_ForecastRows(table) ==
    LET Tagged(row) == row["type"] = "Forecast"
    IN  SelectSeq(table, Tagged)

(* C22: enrich_with_forecast returns the historical rows followed by       *)
(* exactly those rows of the forecast table whose type is 'Forecast', each *)
(* forecast row stamped with company_name, currency and reporting_unit     *)
(* copied from the first historical row; the result has (historical rows + *)
(* Forecast rows) rows, and when the historical table is empty the result  *)
(* is an empty table.                                                      *)
C22_EnrichAppendsStampedForecast ==
    LastCallWas("enrich_with_forecast") =>
        LET result == Val(se_last).table
            future == C22_ForecastRows(Val(se_last).arg)
            n == Len(se_df)
        IN  IF se_df = << >> THEN result = << >>
            ELSE /\ Len(result) = n + Len(future)
                 /\ SubSeq(result, 1, n) = se_df
                 /\ \A i \in 1 .. Len(future) :
                       LET row == result[n + i]
                       IN  /\ row["type"] = "Forecast"
                           /\ row["Year"] = future[i]["Year"]
                           /\ row["revenue"] = future[i]["revenue"]
                           /\ row["company_name"] = se_df[1]["company_name"]
                           /\ row["currency"] = se_df[1]["currency"]
                           /\ row["reporting_unit"] = se_df[1]["reporting_unit"]

\* an EUR row first and a GBP row of another company second, enriched with a
\* table of one historical and two forecast rows, the last of which came
\* with currency USD: two rows are appended and both say Alpha Corp and PLN
C22_Witness ==
    /\ LastCallWas("enrich_with_forecast")
    /\ Len(Val(se_last).arg) = 3
    /\ Len(se_df) = 2
    /\ se_df[1]["company_name"] = "Alpha Corp"
    /\ se_df[1]["currency"] = "PLN"
    /\ se_df[2]["company_name"] = "Beta Corp"
    /\ se_df[2]["currency"] = "GBP"
    /\ Len(Val(se_last).table) = 4
    /\ Val(se_last).table[3]["Year"] = Some(2022)
    /\ Val(se_last).table[4]["Year"] = Some(2023)
    /\ Val(se_last).table[4]["company_name"] = "Alpha Corp"
    /\ Val(se_last).table[4]["currency"] = "PLN"

\* enrich_with_forecast called with forecast rows before any aggregation:
\* the result is empty
C22_WitnessEmpty ==
    /\ LastCallWas("enrich_with_forecast")
    /\ se_df = << >>
    /\ Len(Val(se_last).arg) = 1
    /\ Val(se_last).table = << >>

\* the rows of one table are the rows of the other, in some order
SameRows(a, b) ==
    /\ Len(a) = Len(b)
    /\ \E p \in Orders(Len(a)) : \A i \in 1 .. Len(a) : a[i] = b[p[i]]

(* C27: the aggregator only reads its input: after any sequence of         *)
(* aggregate_data, calculate_metrics and enrich_with_forecast calls every  *)
(* CompanyReport and FinancialPeriod passed in has exactly the field       *)
(* values it had at construction, so calling aggregate_data again rebuilds *)
(* the table with identical rows and no value is converted twice or        *)
(* appended twice.                                                         *)
C27_ReportsOnlyRead ==
    /\ se_reports = se_built
    /\ LastCallWas("aggregate_data") =>
          /\ Val(se_last).table \in aggregate_data(se_built)
          /\ se_df = Val(se_last).table
          /\ SameRows(Val(se_last).table, Val(se_first_agg))
          /\ Len(Val(se_last).table)
                = Len(se_built[1].periods) + Len(se_built[2].periods)

\* aggregate_data, calculate_metrics, enrich_with_forecast and
\* aggregate_data again on an EUR report of two periods: the table is again
\* the one of the first call, revenue 430 and 387, and the report still
\* holds 100 and 90
C27_Witness ==
    /\ se_calls = 4
    /\ LastCallWas("aggregate_data")
    /\ Val(se_prev).call = "enrich_with_forecast"
    /\ Len(Val(se_prev).table) > Len(se_df)
    /\ se_reports[1].reporting_currency = "EUR"
    /\ Len(se_reports[1].periods) = 2
    /\ se_reports[1].periods[1]["revenue"] = 100
    /\ se_reports[1].periods[2]["revenue"] = 90
    /\ Val(se_last).table = Val(se_first_agg)
    /\ Len(se_df) = 2
    /\ se_df[1]["revenue"] = Some(430)
    /\ se_df[2]["revenue"] = Some(387)

(* C28: calculate_metrics is repeatable: after aggregate_data on a         *)
(* non-empty input, calling calculate_metrics two or more times in a row   *)
(* succeeds every time and returns the same KPI table as the first call.   *)
C28_CalculateMetricsRepeatable ==
    (LastCallWas("calculate_metrics") /\ se_df # << >>) =>
        /\ Val(se_last).raised = ""
        /\ (se_prev # << >> /\ Val(se_prev).call = "calculate_metrics")
              => Val(se_last).table = Val(se_prev).table

---------------------------------------------------------------------------
(* Claims about the RevenueForecaster, checked under SpecForecast          *)

\* the last call of fit returned normally
FitReturned == fc_last_fit # << >> /\ Val(fc_last_fit).raised = ""

\* the number of observations the last fit was given
Observed == Len(Val(fc_last_fit).arg.rows)

\* the revenue of the last observation, in Year order, of the last fit
LastObservedRevenue == Val(Val(fc_last_fit).sorted[Observed]["revenue"])

\* two quotients are the same number
SameNumber(a, b) == a.num * b.den = b.num * a.den

(* C23: on the regression path (fit on two or more observations) every     *)
(* forecast revenue predict returns equals max(fitted_line(year), 0.30 *   *)
(* last_observed_revenue, 0): a fitted value below 30% of the last         *)
(* observed revenue is clamped to exactly that floor, a fitted value above *)
(* it is returned unchanged, and no forecast value is negative.            *)
C23_FloorAtThirtyPercent ==
    (FitReturned /\ Observed >= 2 /\ fc_out # << >>) =>
        \A i \in 1 .. Len(Val(fc_out)) :
            LET row == Val(fc_out)[i]
                value == Val(row["revenue"])
                fitted == LinearRegressionPredict(
                              LinearRegressionFit(Val(fc_last_fit).sorted),
                              Val(row["Year"]))
                floor_value == [num |-> 3 * LastObservedRevenue, den |-> 10]
                zero == [num |-> 0, den |-> 1]
            IN  /\ value.den > 0
                /\ value.num >= 0
                /\ \A x \in {fitted, floor_value, zero} : ~ RatioLess(value, x)
                /\ \E x \in {fitted, floor_value, zero} : SameNumber(value, x)
                /\ RatioLess(fitted, floor_value) => value = floor_value
                /\ RatioLess(floor_value, fitted) => value = fitted

\* fit on 100 in 2020 and 55 in 2021: the line gives 10 for 2022 and -35 for
\* 2023, and both forecasts are 16.5, which is 30% of 55
C23_Witness ==
    /\ FitReturned
    /\ Observed = 2
    /\ LastObservedRevenue = 55
    /\ Val(Val(fc_last_fit).sorted[1]["revenue"]) = 100
    /\ fc_out # << >>
    /\ Len(Val(fc_out)) = 2
    /\ Val(fc_out)[1]["Year"] = Some(2022)
    /\ Val(fc_out)[1]["revenue"] = Some([num |-> 165, den |-> 10])
    /\ Val(fc_out)[2]["revenue"] = Some([num |-> 165, den |-> 10])

\* fit on 100 in 2020 and 110 in 2021: the forecast for 2022 is the line's
\* 120, above the floor of 33
C23_WitnessAbove ==
    /\ FitReturned
    /\ Observed = 2
    /\ LastObservedRevenue = 110
    /\ Val(Val(fc_last_fit).sorted[1]["revenue"]) = 100
    /\ fc_out # << >>
    /\ Val(Val(fc_out)[1]["Year"]) = 2022
    /\ Val(Val(fc_out)[1]["revenue"]).num = 120 * Val(Val(fc_out)[1]["revenue"]).den

(* C24: when fit is given exactly one observation no regression model is   *)
(* kept, get_cagr reports 0.02, and predict returns for i = 1 ..           *)
(* years_ahead the value last_revenue * 1.02^i; the 30% floor is not       *)
(* applied on this path.                                                   *)
C24_SingleObservationCompounds ==
    (FitReturned /\ Observed = 1) =>
        /\ fc_model = << >>
        /\ fc_reported # << >> => Val(fc_reported) = [kind |-> "fixed", pct |-> 2]
        /\ fc_out # << >> =>
              /\ Len(Val(fc_out)) = fc_years_ahead
              /\ \A i \in 1 .. fc_years_ahead :
                    Val(fc_out)[i]["revenue"] =
                        Some([kind |-> "compound",
                              base |-> Val(Val(fc_last_fit).arg.rows[1]["revenue"]),
                              growth_rate |-> [kind |-> "fixed", pct |-> 2],
                              power |-> i])

\* a forecaster fitted twice, the second time on the single observation 55
\* in 2021: the second forecast is 55 * 1.02^2 and the reported rate is 0.02
C24_Witness ==
    /\ FitReturned
    /\ fc_fits = 2
    /\ Observed = 1
    /\ Val(fc_last_fit).arg.rows[1] = [Year |-> Some(2021), revenue |-> Some(55)]
    /\ fc_years_ahead = 2
    /\ fc_reported = Some([kind |-> "fixed", pct |-> 2])
    /\ fc_out # << >>
    /\ Val(fc_out)[2]["Year"] = Some(2023)
    /\ Val(fc_out)[2]["revenue"] =
           Some([kind |-> "compound", base |-> 55,
                 growth_rate |-> [kind |-> "fixed", pct |-> 2], power |-> 2])

\* the largest Year among the rows
C25_MaxYear(rows) ==
    CHOOSE y \in {Val(rows[i]["Year"]) : i \in 1 .. Len(rows)} :
        \A i \in 1 .. Len(rows) : Val(rows[i]["Year"]) <= y

\* the rows are years_ahead rows of type 'Forecast' for the consecutive
\* years after last
C25_ForecastYears(rows, last) ==
    /\ Len(rows) = fc_years_ahead
    /\ \A i \in 1 .. Len(rows) :
          /\ rows[i]["type"] = "Forecast"
          /\ rows[i]["Year"] = Some(last + i)

(* C25: after a fit on a non-empty history predict returns exactly         *)
(* years_ahead rows, all of type 'Forecast', whose Years are max(          *)
(* historical Year) + 1 .. max(historical Year) + years_ahead in           *)
(* increasing order, and no historical row; predict_future_revenue returns *)
(* the n historical rows (type 'Historical', sorted by Year) followed by   *)
(* those years_ahead forecast rows.                                        *)
C25_ForecastRowsOnly ==
    /\ (FitReturned /\ Observed >= 1 /\ fc_out # << >>) =>
          C25_ForecastYears(Val(fc_out), C25_MaxYear(Val(fc_last_fit).arg.rows))
    /\ (fc_legacy # << >> /\ Val(fc_legacy).raised = ""
           /\ Val(fc_legacy).arg.rows # << >>) =>
          LET given == Val(fc_legacy).arg.rows
              table == Val(fc_legacy).table
              n == Len(given)
          IN  /\ Len(table) = n + fc_years_ahead
              /\ \A i \in 1 .. n : table[i]["type"] = "Historical"
              /\ \A i \in 1 .. (n - 1) :
                    Val(table[i]["Year"]) <= Val(table[i + 1]["Year"])
              /\ \E p \in Orders(n) :
                    \A i \in 1 .. n :
                       /\ table[i]["Year"] = given[p[i]]["Year"]
                       /\ table[i]["revenue"] = given[p[i]]["revenue"]
              /\ C25_ForecastYears(SubSeq(table, n + 1, Len(table)), C25_MaxYear(given))

\* fit on the rows of 2021, 2020 and 2021 in that order, years_ahead = 2:
\* predict returns the rows of 2022 and 2023
C25_Witness ==
    /\ FitReturned
    /\ Observed = 3
    /\ Val(Val(fc_last_fit).arg.rows[1]["Year"]) = 2021
    /\ Val(Val(fc_last_fit).arg.rows[2]["Year"]) = 2020
    /\ Val(Val(fc_last_fit).arg.rows[3]["Year"]) = 2021
    /\ fc_years_ahead = 2
    /\ fc_out # << >>
    /\ Len(Val(fc_out)) = 2
    /\ Val(fc_out)[1]["Year"] = Some(2022)
    /\ Val(fc_out)[2]["Year"] = Some(2023)
    /\ Val(fc_out)[2]["type"] = "Forecast"

\* predict_future_revenue on the rows of 2021 and 2020 with years_ahead = 2:
\* 2020 and 2021 as historical rows, then 2022 and 2023 as forecast rows
C25_WitnessLegacy ==
    /\ fc_legacy # << >>
    /\ Len(Val(fc_legacy).arg.rows) = 2
    /\ Val(Val(fc_legacy).arg.rows[1]["Year"]) = 2021
    /\ Val(Val(fc_legacy).arg.rows[2]["Year"]) = 2020
    /\ Len(Val(fc_legacy).table) = 4
    /\ Val(fc_legacy).table[1]["Year"] = Some(2020)
    /\ Val(fc_legacy).table[1]["type"] = "Historical"
    /\ Val(fc_legacy).table[2]["Year"] = Some(2021)
    /\ Val(fc_legacy).table[3]["Year"] = Some(2022)
    /\ Val(fc_legacy).table[4]["type"] = "Forecast"

(* C29: a RevenueForecaster never forecasts from stale data: after fit is  *)
(* called with an empty table predict returns an empty forecast (no rows), *)
(* whatever sequence of fit calls preceded it; in particular fit(          *)
(* non-empty), fit(empty), predict yields no rows.                         *)
C29_NoForecastFromStaleData ==
    (fc_last_fit # << >> /\ Val(fc_last_fit).arg.rows = << >> /\ fc_out # << >>)
        => Val(fc_out) = << >>

---------------------------------------------------------------------------
(* Claims about the ingestion factory, checked under SpecIngest            *)

\* the path is a stem followed by a dot and that one token, the stem's file
\* name holding a character that is not a dot
C26_HasExtension(path, tokens) ==
    /\ Len(path) >= 3
    /\ path[Len(path)] \in tokens
    /\ path[Len(path) - 1] = "."
    /\ \E i \in 1 .. (Len(path) - 2) :
          /\ path[i] \notin {".", "/"}
          /\ \A j \in i .. (Len(path) - 2) : path[j] # "/"

(* C26: get_ingestion_strategy selects the handler by file extension,      *)
(* case-insensitively: '.pdf' yields the PDF strategy, '.xml' and '.xhtml' *)
(* yield the XML strategy, and every other extension (including none)      *)
(* fails with an unsupported-format error before any parsing is attempted. *)
C26_StrategyByExtension ==
    ig_pc \in {"returned", "raised", "parsed"} =>
        IF C26_HasExtension(ig_path, {"pdf", "PDF"})
        THEN ig_strategy = << "PDFIngestionStrategy" >> /\ ig_raised = ""
        ELSE IF C26_HasExtension(ig_path, {"xml", "Xhtml"})
        THEN ig_strategy = << "XMLIngestionStrategy" >> /\ ig_raised = ""
        ELSE /\ ig_strategy = << >>
             /\ ig_raised = "ValueError"
             /\ ig_pc = "raised"
             /\ ig_parse_calls = 0

\* report.PDF yields the PDF strategy and is parsed
C26_Witness ==
    /\ ig_path = << "report", ".", "PDF" >>
    /\ ig_strategy = << "PDFIngestionStrategy" >>
    /\ ig_pc = "parsed"

\* report.Xhtml yields the XML strategy
C26_WitnessXhtml ==
    /\ ig_path = << "/", "report", ".", "Xhtml" >>
    /\ ig_strategy = << "XMLIngestionStrategy" >>

\* report.txt, a path with no dot, and report.pdf/report fail before parsing
C26_WitnessUnsupported ==
    /\ ig_path \in {<< "report", ".", "txt" >>, << "report" >>,
                    << "report", ".", "pdf", "/" >>}
    /\ ig_raised = "ValueError"
    /\ ig_parse_calls = 0

---------------------------------------------------------------------------
(* The accounting identity in the aggregated table, checked under          *)
(* SpecIdentity                                                            *)

\* |assets - (liabilities + equity)| of a row
C30_Difference(row) ==
    Abs(Val(row["assets"]) - (Val(row["liabilities"]) + Val(row["equity"])))

(* C30 as stated: every row of the aggregated table satisfies              *)
(* |assets - (liabilities + equity)| <= max(1.0, 0.01 * assets) on its     *)
(* converted values, for every valid FinancialPeriod and every currency of *)
(* the exchange-rate table.                                                *)
C30_IdentitySurvivesNormalization ==
    id_pc = "done" =>
        \A i \in 1 .. Len(id_df) :
            100 * C30_Difference(id_df[i]) <= Max(100, Val(id_df[i]["assets"]))

(* C30, amended: every row of the aggregated table satisfies               *)
(* |assets - (liabilities + equity)| <= max(rate, 0.01 * assets) on its    *)
(* converted values, rate being the exchange rate of the report's          *)
(* currency: the absolute part of the tolerance grows with the rate.       *)
C30_IdentityWithinScaledTolerance ==
    id_pc = "done" =>
        /\ Len(id_df) = 1
        /\ \A i \in 1 .. Len(id_df) :
              1000 * C30_Difference(id_df[i])
                 <= Max(100 * EXCHANGE_RATES[id_currency],
                        10 * Val(id_df[i]["assets"]))

\* assets 50, liabilities 20 and equity 29 in USD pass the validator with a
\* difference of 1; the row holds 200, 80 and 116, a difference of 4, which
\* is the rate and is above max(1.0, 2.0)
C30_Witness ==
    /\ id_pc = "done"
    /\ id_currency = "USD"
    /\ id_kwargs["assets"] = Some(50)
    /\ id_kwargs["liabilities"] = Some(20)
    /\ id_kwargs["equity"] = Some(29)
    /\ id_df[1]["assets"] = Some(200)
    /\ id_df[1]["liabilities"] = Some(80)
    /\ id_df[1]["equity"] = Some(116)

===========================================================================
